---- MODULE Spec2Model ----
(***************************************************************************)
(* Model of the Base Hiring service (src/app.py, src/server.py): the       *)
(* process-wide TTL cache in front of the upstream hiring API and the      *)
(* TF-IDF / cosine-similarity resolvers for openings and candidates.       *)
(*                                                                         *)
(* Strings are modelled as sequences of words; two Python strings are      *)
(* equal iff their word sequences are equal.  Time is in whole seconds.    *)
(***************************************************************************)
EXTENDS Integers, Sequences, FiniteSets, TLC

VARIABLES
    now,              \* value time() returns
    ACCOUNT_API_KEY,  \* TRUE iff the ACCOUNT_API_KEY environment variable is set
    cache,            \* the module-level _cache dictionary
    last,             \* record of the most recent helper call (history)
    prev,             \* record of the helper call before it (history)
    reqs,             \* per-request position inside a cache helper (threaded runs)
    openings,         \* resolver input: list returned by get_base_openings
    candidates,       \* resolver input: the upstream answer to candidate/list
    query_name,       \* resolver input: the query string
    opening_id,       \* resolver input: the opening whose candidates are searched
    filter_stages,    \* resolver input: the stage filter of candidate resolution
    sim_threshold,    \* resolver input: the similarity_threshold argument
    result,           \* record of the most recent resolution (history)
    request,          \* the request being served by an endpoint or tool
    response,         \* the answer to it (with history fields missed and calls)
    served,           \* what upstream answered while it was served (history)
    stage_name,       \* listing input: the stage_name argument of a candidate listing
    listing,          \* record of the most recent candidate listing (history)
    html,             \* normalizer input: the text given to remove_html_tags
    plain             \* record of the most recent remove_html_tags call (history)

vars == <<now, ACCOUNT_API_KEY, cache, last, prev, reqs,
          openings, candidates, query_name, opening_id, filter_stages, sim_threshold, result,
          request, response, served, stage_name, listing, html, plain>>

cacheVars == <<now, ACCOUNT_API_KEY, cache, last, prev>>
concVars == <<reqs>>
inputVars == <<openings, candidates, query_name, opening_id, filter_stages, sim_threshold>>
resolveVars == <<inputVars, result>>
apiVars == <<request, response, served>>
listVars == <<stage_name, listing>>
textVars == <<html, plain>>

-----------------------------------------------------------------------------
(* Bounds *)

MaxTime == 301
NumReqs == 2
MaxOpenings == 2
MaxCandidates == 2
MaxLen == 3

-----------------------------------------------------------------------------
(* Cache configuration *)

CACHE_TTL == 300

Keys == {"openings", "job_descriptions", "users_info"}

\* Python None as a cache payload; a stored payload v is Some(v).
NoneV == [none |-> TRUE]
Some(v) == [none |-> FALSE, val |-> v]

cache_init == [k \in Keys |-> [data |-> NoneV, timestamp |-> 0]]

\* Seconds the clock advances between two steps.
TickSteps == {299, 300, 301}

-----------------------------------------------------------------------------
(* Upstream responses *)

O1 == <<"o1">>
O2 == <<"o2">>
O3 == <<"o3">>
BackendEngineer == <<"Backend", "Engineer">>
FrontendEngineer == <<"Frontend", "Engineer">>

\* An upstream opening; content is the length of
\* BeautifulSoup(content).get_text() for the opening's content.
UpOpening(id, name, status, len) ==
    [id |-> id, name |-> name, status |-> status, content |-> len]

UpstreamOpeningLists ==
    { <<>>,
      <<UpOpening(O1, BackendEngineer, "10", 9)>>,
      <<UpOpening(O1, BackendEngineer, "10", 20), UpOpening(O2, FrontendEngineer, "0", 20)>> }

\* kind "neterr": requests raised RequestException (network error, timeout,
\* non-2xx via raise_for_status); "badjson": response.json() raised;
\* "ok": a JSON object, with or without the 'openings' key.
OpeningResponses ==
    { [kind |-> "neterr", has_key |-> FALSE, items |-> <<>>],
      [kind |-> "badjson", has_key |-> FALSE, items |-> <<>>],
      [kind |-> "ok", has_key |-> FALSE, items |-> <<>>] }
    \cup { [kind |-> "ok", has_key |-> TRUE, items |-> l] : l \in UpstreamOpeningLists }

UpUser(username, name, title) == [username |-> username, name |-> name, title |-> title]

UpstreamUserLists ==
    { <<>>,
      <<UpUser("", "Nobody", "Dev"), UpUser("hoang", "Hoang Tran", "Dev")>> }

UserResponses ==
    { [kind |-> "neterr", has_key |-> FALSE, items |-> <<>>],
      [kind |-> "badjson", has_key |-> FALSE, items |-> <<>>],
      [kind |-> "ok", has_key |-> FALSE, items |-> <<>>] }
    \cup { [kind |-> "ok", has_key |-> TRUE, items |-> l] : l \in UpstreamUserLists }

Responses(key) == IF key = "users_info" THEN UserResponses ELSE OpeningResponses

-----------------------------------------------------------------------------
(* Results of a helper call *)

Return(v) == [raised |-> FALSE, status |-> 200, val |-> v]
Raise(code) == [raised |-> TRUE, status |-> code, val |-> <<>>]

\* What one helper call did: the cache afterwards, what it returned or
\* raised, whether it called upstream, whether it wrote the cache entry.
Outcome(c, ret, fetched, stored) ==
    [cache |-> c, ret |-> ret, fetched |-> fetched, stored |-> stored]

\* Variant of CacheFresh that still serves an entry exactly CACHE_TTL old.
CacheFresh_inclusive(c, key, current_time) ==
    /\ c[key].data # NoneV
    /\ current_time - c[key].timestamp <= CACHE_TTL

\* The check `data is not None and current_time - timestamp < CACHE_TTL`.
CacheFresh(c, key, current_time) ==
    /\ c[key].data # NoneV
    /\ current_time - c[key].timestamp < CACHE_TTL

\* Variant of Store that keeps the entry's old timestamp.
Store_old_timestamp(c, key, payload, current_time) ==
    [c EXCEPT ![key] = [data |-> Some(payload), timestamp |-> c[key].timestamp]]

\* Variant of Store that stamps every entry with the time of the refresh.
Store_stamps_all(c, key, payload, current_time) ==
    [k \in Keys |-> [data |-> IF k = key THEN Some(payload) ELSE c[k].data,
                     timestamp |-> current_time]]

Store(c, key, payload, current_time) ==
    [c EXCEPT ![key] = [data |-> Some(payload), timestamp |-> current_time]]

-----------------------------------------------------------------------------
(* The three cached helpers.  Each takes the cache, the current_time it    *)
(* captured on entry, the use_cache flag and the upstream response it gets *)
(* if it calls upstream, and yields an Outcome.  The *_fetch operators are *)
(* the part of the helper after the cache check.                           *)

\* Variant of IsActive that accepts every status.
IsActive_any(opening) == opening.status = opening.status

IsActive(opening) == opening.status = "10"
OpeningIdName(opening) == [id |-> opening.id, name |-> opening.name]
JdRecord(opening) == [id |-> opening.id, name |-> opening.name, content |-> opening.content]
HasJdText(opening) == IsActive(opening) /\ opening.content >= 10

filtered_openings(items) ==
    LET active == SelectSeq(items, IsActive)
    IN  [i \in 1..Len(active) |-> OpeningIdName(active[i])]

jd_results(items) ==
    LET kept == SelectSeq(items, HasJdText)
    IN  [i \in 1..Len(kept) |-> JdRecord(kept[i])]

\* Variant of get_base_openings_fetch that empties the entry when the call fails.
get_base_openings_fetch_wipes(c, current_time, use_cache, resp) ==
    IF resp.kind = "neterr"
    THEN Outcome([c EXCEPT !["openings"] = [data |-> NoneV, timestamp |-> current_time]],
                 Raise(503), TRUE, FALSE)
    ELSE IF resp.kind = "badjson" THEN Outcome(c, Raise(500), TRUE, FALSE)
    ELSE LET filtered == filtered_openings(resp.items)
         IN  IF use_cache
             THEN Outcome(Store(c, "openings", filtered, current_time), Return(filtered), TRUE, TRUE)
             ELSE Outcome(c, Return(filtered), TRUE, FALSE)

get_base_openings_fetch(c, current_time, use_cache, resp) ==
    IF resp.kind = "neterr" THEN Outcome(c, Raise(503), TRUE, FALSE)
    ELSE IF resp.kind = "badjson" THEN Outcome(c, Raise(500), TRUE, FALSE)
    ELSE LET filtered == filtered_openings(resp.items)
         IN  IF use_cache
             THEN Outcome(Store(c, "openings", filtered, current_time), Return(filtered), TRUE, TRUE)
             ELSE Outcome(c, Return(filtered), TRUE, FALSE)

get_base_openings(c, current_time, use_cache, resp) ==
    IF use_cache /\ CacheFresh(c, "openings", current_time)
    THEN Outcome(c, Return(c["openings"].data.val), FALSE, FALSE)
    ELSE get_base_openings_fetch(c, current_time, use_cache, resp)

get_job_descriptions_fetch(c, current_time, use_cache, resp) ==
    IF resp.kind = "neterr" THEN Outcome(c, Raise(503), TRUE, FALSE)
    ELSE IF resp.kind = "badjson" THEN Outcome(c, Raise(500), TRUE, FALSE)
    ELSE IF resp.has_key
         THEN LET results == jd_results(resp.items)
              IN  IF use_cache
                  THEN Outcome(Store(c, "job_descriptions", results, current_time), Return(results), TRUE, TRUE)
                  ELSE Outcome(c, Return(results), TRUE, FALSE)
         ELSE Outcome(c, Return(<<>>), TRUE, FALSE)

get_job_descriptions(c, current_time, use_cache, resp) ==
    IF use_cache /\ CacheFresh(c, "job_descriptions", current_time)
    THEN Outcome(c, Return(c["job_descriptions"].data.val), FALSE, FALSE)
    ELSE get_job_descriptions_fetch(c, current_time, use_cache, resp)

\* One entry of the username -> {name, title} dictionary, kept in insertion order.
UserInfo(user) ==
    [username |-> user.username, name |-> user.name,
     title |-> IF user.name = "Hoang Tran" THEN "CEO" ELSE user.title]

DictPut(d, e) ==
    IF \E i \in 1..Len(d) : d[i].username = e.username
    THEN [i \in 1..Len(d) |-> IF d[i].username = e.username THEN e ELSE d[i]]
    ELSE Append(d, e)

RECURSIVE username_to_info(_)
username_to_info(users) ==
    IF users = <<>> THEN <<>>
    ELSE LET d == username_to_info(SubSeq(users, 1, Len(users) - 1))
             user == users[Len(users)]
         IN  IF user.username # "" THEN DictPut(d, UserInfo(user)) ELSE d

get_users_info_fetch(c, current_time, use_cache, resp) ==
    IF resp.kind # "ok" THEN Outcome(c, Return(<<>>), TRUE, FALSE)
    ELSE LET info == IF resp.has_key THEN username_to_info(resp.items) ELSE <<>>
         IN  IF use_cache
             THEN Outcome(Store(c, "users_info", info, current_time), Return(info), TRUE, TRUE)
             ELSE Outcome(c, Return(info), TRUE, FALSE)

get_users_info(c, account_key, current_time, use_cache, resp) ==
    IF ~account_key THEN Outcome(c, Return(<<>>), FALSE, FALSE)
    ELSE IF use_cache /\ CacheFresh(c, "users_info", current_time)
    THEN Outcome(c, Return(c["users_info"].data.val), FALSE, FALSE)
    ELSE get_users_info_fetch(c, current_time, use_cache, resp)

-----------------------------------------------------------------------------
(* Text and TF-IDF.  A string is a sequence of words.  TfidfVectorizer()   *)
(* lower-cases the text and keeps the words of two or more characters.     *)
(* idf weights are held in tenths (10 * (ln((1+n)/(1+df)) + 1), rounded);  *)
(* similarities are compared exactly, as the fraction dot^2 / (|q|^2 |d|^2) *)
(* that is the square of the cosine.                                       *)

Lower(w) ==
    CASE w = "Backend" -> "backend"
      [] w = "Engineer" -> "engineer"
      [] w = "Frontend" -> "frontend"
      [] w = "Marketing" -> "marketing"
      [] w = "Manager" -> "manager"
      [] w = "An" -> "an"
      [] w = "Nguyen" -> "nguyen"
      [] w = "C" -> "c"
      [] w = "Hired" -> "hired"
      [] w = "Onsite" -> "onsite"
      [] w = "Technical" -> "technical"
      [] w = "Final" -> "final"
      [] w = "Review" -> "review"
      [] w = "Interview" -> "interview"
      [] OTHER -> w

\* Words of a single character, which the token pattern \w\w+ drops.
ShortWords == {"C", "c"}

IsToken(w) == w \notin ShortWords

Tokens(text) ==
    LET kept == SelectSeq(text, IsToken)
    IN  [i \in 1..Len(kept) |-> Lower(kept[i])]

TokenSet(text) == {Tokens(text)[i] : i \in 1..Len(Tokens(text))}

\* Vocabulary fitted on the documents.
Vocabulary(docs) == UNION {TokenSet(docs[i]) : i \in 1..Len(docs)}

TermCount(tok, text) == Cardinality({i \in 1..Len(Tokens(text)) : Tokens(text)[i] = tok})

DocFreq(tok, docs) == Cardinality({i \in 1..Len(docs) : tok \in TokenSet(docs[i])})

\* 10 * ln(k), rounded, for k = 1..8.
LnTenths == <<0, 7, 11, 14, 16, 18, 19, 21>>

\* smooth idf: ln((1 + n) / (1 + df)) + 1, in tenths.
Idf(tok, docs) == 10 + LnTenths[1 + Len(docs)] - LnTenths[1 + DocFreq(tok, docs)]

Weight(tok, text, docs) == TermCount(tok, text) * Idf(tok, docs)

RECURSIVE DotOver(_, _, _, _)
DotOver(toks, a, b, docs) ==
    IF toks = {} THEN 0
    ELSE LET tok == CHOOSE x \in toks : TRUE
         IN  Weight(tok, a, docs) * Weight(tok, b, docs) + DotOver(toks \ {tok}, a, b, docs)

Dot(a, b, docs) == DotOver(Vocabulary(docs), a, b, docs)

\* Scores: 1.0, 0.0 and the square of a cosine as a fraction.
One == [num |-> 1, den |-> 1]
Zero == [num |-> 0, den |-> 1]
Half == [num |-> 1, den |-> 2]

\* a/b < c/d for a, c >= 0 and b, d > 0, without forming cross products.
RECURSIVE FracLess(_, _, _, _)
FracLess(a, b, c, d) ==
    LET qa == a \div b
        qc == c \div d
        ra == a % b
        rc == c % d
    IN  IF qa # qc THEN qa < qc
        ELSE IF rc = 0 THEN FALSE
        ELSE IF ra = 0 THEN TRUE
        ELSE FracLess(d, rc, b, ra)

ScoreLess(s1, s2) == FracLess(s1.num, s1.den, s2.num, s2.den)

\* Variant of AtLeast with the comparison turned round: score <= threshold.
AtMost(score, threshold) ==
    ~FracLess(threshold.num * threshold.num, threshold.den * threshold.den, score.num, score.den)

\* score >= threshold, the score being a squared cosine.
AtLeast(score, threshold) ==
    ~FracLess(score.num, score.den, threshold.num * threshold.num, threshold.den * threshold.den)

\* cosine_similarity(query_vector, name_vectors)[j]
Cosine(query, doc, docs) ==
    LET dot == Dot(query, doc, docs)
        qq == Dot(query, query, docs)
        dd == Dot(doc, doc, docs)
    IN  IF qq = 0 \/ dd = 0 \/ dot = 0 THEN Zero
        ELSE IF dot * dot = qq * dd THEN One
        ELSE [num |-> dot * dot, den |-> qq * dd]

similarities(query, docs) == [j \in 1..Len(docs) |-> Cosine(query, docs[j], docs)]

\* Variant of argmax that takes the index of the smallest value (np.argmin).
argmin(sims) ==
    CHOOSE i \in 1..Len(sims) :
        /\ \A j \in 1..Len(sims) : ~ScoreLess(sims[j], sims[i])
        /\ \A j \in 1..(i - 1) : ScoreLess(sims[i], sims[j])

\* np.argmax: the first index of the greatest value.
argmax(sims) ==
    CHOOSE i \in 1..Len(sims) :
        /\ \A j \in 1..Len(sims) : ~ScoreLess(sims[i], sims[j])
        /\ \A j \in 1..(i - 1) : ScoreLess(sims[j], sims[i])

-----------------------------------------------------------------------------
(* Opening resolution *)

NoMatch(score) == [id |-> NoneV, name |-> NoneV, score |-> score]
Match(id, name, score) == [id |-> Some(id), name |-> Some(name), score |-> score]

Names(entries) == [i \in 1..Len(entries) |-> entries[i].name]

\* Variant of first_exact that takes the last entry equal to the query.
last_exact(entries, query, by_id) ==
    LET hits == {i \in 1..Len(entries) :
                    (by_id /\ entries[i].id = query) \/ entries[i].name = query}
    IN  IF hits = {} THEN 0 ELSE CHOOSE i \in hits : \A j \in hits : j <= i

\* next(e for e in entries if e['id'] == query or e['name'] == query):
\* index of the first entry equal to the query, 0 if there is none.
first_exact(entries, query, by_id) ==
    LET hits == {i \in 1..Len(entries) :
                    (by_id /\ entries[i].id = query) \/ entries[i].name = query}
    IN  IF hits = {} THEN 0 ELSE CHOOSE i \in hits : \A j \in hits : i <= j

\* Variant of find_opening_id_by_name that returns the most similar opening
\* without comparing its similarity with the threshold.
find_opening_id_by_name_nearest(ops, query, similarity_threshold) ==
    IF ops = <<>> THEN NoMatch(Zero)
    ELSE LET exact == first_exact(ops, query, TRUE)
             opening_names == Names(ops)
         IN  IF exact # 0 THEN Match(ops[exact].id, ops[exact].name, One)
             ELSE IF Vocabulary(opening_names) = {} THEN NoMatch(Zero)
             ELSE LET sims == similarities(query, opening_names)
                      best_idx == argmax(sims)
                  IN  Match(ops[best_idx].id, ops[best_idx].name, sims[best_idx])

\* Variant of find_opening_id_by_name that answers an empty list with no
\* score (return None, None, None).
find_opening_id_by_name_noscore(ops, query, similarity_threshold) ==
    IF ops = <<>> THEN NoMatch(NoneV)
    ELSE LET exact == first_exact(ops, query, TRUE)
             opening_names == Names(ops)
         IN  IF exact # 0 THEN Match(ops[exact].id, ops[exact].name, One)
             ELSE IF Vocabulary(opening_names) = {} THEN NoMatch(Zero)
             ELSE LET sims == similarities(query, opening_names)
                      best_idx == argmax(sims)
                  IN  IF AtLeast(sims[best_idx], similarity_threshold)
                      THEN Match(ops[best_idx].id, ops[best_idx].name, sims[best_idx])
                      ELSE NoMatch(sims[best_idx])

\* Variant of find_opening_id_by_name that returns the best opening's id
\* with the name of the first opening of the list.
find_opening_id_by_name_mixed(ops, query, similarity_threshold) ==
    IF ops = <<>> THEN NoMatch(Zero)
    ELSE LET exact == first_exact(ops, query, TRUE)
             opening_names == Names(ops)
         IN  IF exact # 0 THEN Match(ops[exact].id, ops[exact].name, One)
             ELSE IF Vocabulary(opening_names) = {} THEN NoMatch(Zero)
             ELSE LET sims == similarities(query, opening_names)
                      best_idx == argmax(sims)
                  IN  IF AtLeast(sims[best_idx], similarity_threshold)
                      THEN Match(ops[best_idx].id, ops[1].name, sims[best_idx])
                      ELSE NoMatch(sims[best_idx])

find_opening_id_by_name(ops, query, similarity_threshold) ==
    IF ops = <<>> THEN NoMatch(Zero)
    ELSE LET exact == first_exact(ops, query, TRUE)
             opening_names == Names(ops)
         IN  IF exact # 0 THEN Match(ops[exact].id, ops[exact].name, One)
             ELSE IF Vocabulary(opening_names) = {} THEN NoMatch(Zero)
             ELSE LET sims == similarities(query, opening_names)
                      best_idx == argmax(sims)
                  IN  IF AtLeast(sims[best_idx], similarity_threshold)
                      THEN Match(ops[best_idx].id, ops[best_idx].name, sims[best_idx])
                      ELSE NoMatch(sims[best_idx])

-----------------------------------------------------------------------------
(* Candidate resolution *)

HasName(candidate) == candidate.name # <<>>

\* What find_candidate_by_name_in_opening gives: the pair (None, score), the
\* pair (id, score), or the exception of response.json().
NoCandidate(score) == [id |-> NoneV, score |-> score, raised |-> FALSE]
Candidate(id, score) == [id |-> Some(id), score |-> score, raised |-> FALSE]
CandidateRaise == [id |-> NoneV, score |-> Zero, raised |-> TRUE]

\* Variant of stage_filtered that falls back to the full list when the
\* filter leaves no candidate.
stage_filtered_or_all(items, stages) ==
    IF stages = {} THEN items
    ELSE LET InStage(candidate) ==
                 candidate.stage_name # <<>> /\ candidate.stage_name \in stages
         IN  IF SelectSeq(items, InStage) = <<>> THEN items ELSE SelectSeq(items, InStage)

\* Variant of stage_filtered that ignores the stage filter.
stage_filtered_off(items, stages) == items

\* The candidates that pass the stage filter; all of them without a filter.
stage_filtered(items, stages) ==
    IF stages = {} THEN items
    ELSE LET InStage(candidate) ==
                 candidate.stage_name # <<>> /\ candidate.stage_name \in stages
         IN  SelectSeq(items, InStage)

find_candidate_by_name_in_opening(candidate_name, op_id, resp, similarity_threshold, stages) ==
    IF candidate_name = <<>> \/ op_id = <<>> THEN NoCandidate(Zero)
    ELSE IF resp.kind = "neterr" THEN NoCandidate(Zero)
    ELSE IF resp.kind = "badjson" THEN CandidateRaise
    ELSE IF ~resp.has_key \/ resp.items = <<>> THEN NoCandidate(Zero)
    ELSE LET filtered_candidates == stage_filtered(resp.items, stages)
             candidates_with_names == SelectSeq(filtered_candidates, HasName)
             candidate_names == Names(candidates_with_names)
             exact == first_exact(filtered_candidates, candidate_name, FALSE)
         IN  IF filtered_candidates = <<>> THEN NoCandidate(Zero)
             ELSE IF candidate_names = <<>> THEN NoCandidate(Zero)
             ELSE IF exact # 0 THEN Candidate(filtered_candidates[exact].id, One)
             ELSE IF Vocabulary(candidate_names) = {} THEN NoCandidate(Zero)
             ELSE LET sims == similarities(candidate_name, candidate_names)
                      best_idx == argmax(sims)
                  IN  IF AtLeast(sims[best_idx], similarity_threshold)
                      THEN Candidate(candidates_with_names[best_idx].id, sims[best_idx])
                      ELSE NoCandidate(sims[best_idx])

-----------------------------------------------------------------------------
(* Resolver inputs *)

OpeningIds == {O1, O2, O3}

OpeningNames == {<<"C">>, <<"Engineer">>, BackendEngineer, FrontendEngineer, O2}

OpeningQueries ==
    OpeningIds \cup OpeningNames
    \cup {<<"engineer">>, <<"backend", "engineer">>, <<"Engineer", "Backend">>,
          <<"Marketing", "Manager">>}

OpeningEntries == [id : OpeningIds, name : OpeningNames]

\* Lists of at most n entries with pairwise different ids.
RECURSIVE DistinctLists(_, _)
DistinctLists(entries, n) ==
    IF n = 0 THEN {<<>>}
    ELSE LET shorter == DistinctLists(entries, n - 1)
         IN  shorter \cup
             {Append(l, e) : l \in {x \in shorter : Len(x) = n - 1}, e \in entries}

HasDistinctIds(l) == \A i, j \in 1..Len(l) : i # j => l[i].id # l[j].id

OpeningLists == {l \in DistinctLists(OpeningEntries, MaxOpenings) : HasDistinctIds(l)}

CandidateIds == {<<"c1">>, <<"c2">>, <<"c3">>}
CandidateNames == {<<>>, <<"An">>, <<"An", "Nguyen">>}
StageNames == {<<>>, <<"New">>, <<"Hired">>}
CandidateQueries == CandidateNames \cup {<<"an">>, <<"c1">>}
StageFilters == {{}, {<<"Hired">>}, {<<"Offered">>, <<"Hired">>}}

\* Values of similarity_threshold: the default 0.5, and 0.3 and 0.8 around it.
Thresholds == {[num |-> 3, den |-> 10], Half, [num |-> 4, den |-> 5]}

CandidateEntries == [id : CandidateIds, name : CandidateNames, stage_name : StageNames]

CandidateLists == {l \in DistinctLists(CandidateEntries, MaxCandidates) : HasDistinctIds(l)}

CandidateResponses ==
    { [kind |-> "neterr", has_key |-> FALSE, items |-> <<>>],
      [kind |-> "ok", has_key |-> FALSE, items |-> <<>>] }
    \cup { [kind |-> "ok", has_key |-> TRUE, items |-> l] : l \in CandidateLists }

\* No resolution asked for or made.
NoResult == [kind |-> "none", done |-> FALSE, ret |-> NoMatch(Zero)]

\* No request received yet.
NoRequest ==
    [endpoint |-> "none", opening_name_or_id |-> <<>>, candidate_id |-> <<>>,
     candidate_name |-> <<>>, date |-> "", start_date |-> "", end_date |-> ""]

\* An answer.  success, http (0 for a tool, which has no status code), error
\* and score are what the caller sees; missed records that the resolution of
\* the opening or of the candidate named in the request returned no id,
\* calls the number of upstream calls made.
Answer(tool, code, error, missed, score, calls) ==
    [done |-> TRUE, success |-> (code = 200), http |-> IF tool THEN 0 ELSE code,
     error |-> error, missed |-> missed, score |-> score, calls |-> calls]

\* The request has been received and not answered yet.
Pending ==
    [done |-> FALSE, success |-> FALSE, http |-> 0,
     error |-> "none", missed |-> FALSE, score |-> NoneV, calls |-> 0]

Idle == Answer(TRUE, 200, "none", FALSE, NoneV, 0)

\* No upstream answer: the call was not part of the request.
NoAnswer == [kind |-> "none", has_key |-> FALSE, items |-> <<>>]

\* The answers upstream had for opening/list and candidate/list while a
\* request was served, and the cache the request found.
Served(before, opening_list, candidate_list, job_list) ==
    [before |-> before, opening_list |-> opening_list,
     candidate_list |-> candidate_list, job_list |-> job_list]

NotServed == Served(cache_init, NoAnswer, NoAnswer, NoAnswer)

\* No candidate listing asked for or made.
NotListed == [done |-> FALSE, asked |-> FALSE]

\* remove_html_tags has not been called.
NotCleaned == [done |-> FALSE, asked |-> FALSE, text |-> <<>>]


-----------------------------------------------------------------------------
(* remove_html_tags.  A text is a sequence of lexemes: the tags "<br>",     *)
(* "<br/>", "<br />", "<BR>" and "<b>", the entities "&lt;", "&gt;" and     *)
(* "&amp;", and the single characters "<", ">", newline, space and "a".     *)
(* The letters and the "&" of a tag or entity occur inside these lexemes    *)
(* only, so every match of the four patterns starts and ends at a lexeme    *)
(* boundary and each re.sub is computed lexeme by lexeme.                   *)

Lexemes == {"<br>", "<br/>", "<br />", "<BR>", "<b>", "&lt;", "&gt;", "&amp;", "<", ">", "\n", " ", "a"}

\* The lexemes the pattern <br\s*/?> matches; it is case-sensitive.
BrTags == {"<br>", "<br/>", "<br />"}

\* The lexemes that are a whole tag: "<", characters other than ">", ">".
TagLexemes == BrTags \cup {"<BR>", "<b>"}

Closes(x) == x = ">" \/ x \in TagLexemes

Whitespace == {"\n", " "}

\* re.sub(r'<br\s*/?>', '\n', text)
sub_br(text) == [i \in 1..Len(text) |-> IF text[i] \in BrTags THEN "\n" ELSE text[i]]

\* re.sub(r'<[^>]+>', '', text): from a "<", the match runs to the first ">"
\* after it, if at least one character lies between them.
RECURSIVE sub_tags(_)
sub_tags(text) ==
    IF text = <<>> THEN <<>>
    ELSE IF text[1] \in TagLexemes THEN sub_tags(Tail(text))
    ELSE IF text[1] = "<"
    THEN LET closers == {j \in 2..Len(text) : Closes(text[j])}
             first == CHOOSE j \in closers : \A k \in closers : j <= k
         IN  IF closers = {} \/ (first = 2 /\ text[2] = ">")
             THEN <<"<">> \o sub_tags(Tail(text))
             ELSE sub_tags(SubSeq(text, first + 1, Len(text)))
    ELSE <<text[1]>> \o sub_tags(Tail(text))

\* html.unescape on one lexeme.
Decoded(x) ==
    CASE x = "&lt;" -> "<"
      [] x = "&gt;" -> ">"
      [] x = "&amp;" -> "&"
      [] OTHER -> x

unescape(text) == [i \in 1..Len(text) |-> Decoded(text[i])]

\* re.sub(r'\n\s*\n', '\n', text): from a newline, the match runs to the
\* last newline of the whitespace that follows it.
RECURSIVE sub_blank_lines(_)
sub_blank_lines(text) ==
    IF text = <<>> THEN <<>>
    ELSE IF text[1] = "\n"
    THEN LET run == {k \in 1..Len(text) : \A i \in 2..k : text[i] \in Whitespace}
             newlines == {j \in run : j >= 2 /\ text[j] = "\n"}
             final == CHOOSE j \in newlines : \A k \in newlines : k <= j
         IN  IF newlines = {} THEN <<"\n">> \o sub_blank_lines(Tail(text))
             ELSE <<"\n">> \o sub_blank_lines(SubSeq(text, final + 1, Len(text)))
    ELSE <<text[1]>> \o sub_blank_lines(Tail(text))

\* str.strip()
strip(text) ==
    LET solid == {i \in 1..Len(text) : text[i] \notin Whitespace}
    IN  IF solid = {} THEN <<>>
        ELSE SubSeq(text, CHOOSE i \in solid : \A k \in solid : i <= k,
                          CHOOSE i \in solid : \A k \in solid : k <= i)

\* text: NoneV for None, Some(t) for a string.
remove_html_tags(text) ==
    IF text = NoneV \/ text.val = <<>> THEN <<>>
    ELSE strip(sub_blank_lines(unescape(sub_tags(sub_br(text.val)))))

-----------------------------------------------------------------------------
(* Requests served one after another: every helper call runs to its end.   *)

NoCall ==
    [key |-> "none", use_cache |-> FALSE, t |-> 0, before |-> [data |-> NoneV, timestamp |-> 0],
     fetched |-> FALSE, stored |-> FALSE, upstream |-> "none", ret |-> Return(<<>>)]

\* What is remembered of the call before the most recent one.
Brief(call) ==
    [key |-> call.key, use_cache |-> call.use_cache, t |-> call.t,
     fetched |-> call.fetched, stored |-> call.stored, upstream |-> call.upstream]

CallRecord(key, use_cache, resp, o) ==
    [key |-> key, use_cache |-> use_cache, t |-> now, before |-> cache[key],
     fetched |-> o.fetched, stored |-> o.stored,
     upstream |-> IF o.fetched THEN resp.kind ELSE "none", ret |-> o.ret]

Record(key, use_cache, resp, o) ==
    /\ cache' = o.cache
    /\ last' = CallRecord(key, use_cache, resp, o)
    /\ prev' = Brief(last)
    /\ UNCHANGED <<now, ACCOUNT_API_KEY, reqs, resolveVars, apiVars, listVars, textVars>>


\* A request that is not inside a cache helper.
idle_req == [pc |-> "idle", key |-> "none", use_cache |-> FALSE, current_time |-> 0]

Init ==
    /\ now = 0
    /\ ACCOUNT_API_KEY \in BOOLEAN
    /\ cache = cache_init
    /\ last = NoCall
    /\ prev = Brief(NoCall)
    /\ reqs = [r \in 1..NumReqs |-> idle_req]
    /\ openings = <<>>
    /\ candidates = [kind |-> "ok", has_key |-> FALSE, items |-> <<>>]
    /\ query_name = <<>>
    /\ opening_id = <<>>
    /\ filter_stages = {}
    /\ sim_threshold = Half
    /\ result = NoResult
    /\ request = NoRequest
    /\ response = Idle
    /\ served = NotServed
    /\ stage_name = NoneV
    /\ listing = NotListed
    /\ html = NoneV
    /\ plain = NotCleaned

Tick ==
    /\ \E d \in TickSteps : now + d <= MaxTime /\ now' = now + d
    /\ UNCHANGED <<ACCOUNT_API_KEY, cache, last, prev, reqs, resolveVars, apiVars, listVars, textVars>>

GetBaseOpenings ==
    \E use_cache \in BOOLEAN, resp \in OpeningResponses :
        Record("openings", use_cache, resp, get_base_openings(cache, now, use_cache, resp))

GetJobDescriptions ==
    \E use_cache \in BOOLEAN, resp \in OpeningResponses :
        Record("job_descriptions", use_cache, resp, get_job_descriptions(cache, now, use_cache, resp))

GetUsersInfo ==
    \E use_cache \in BOOLEAN, resp \in UserResponses :
        Record("users_info", use_cache, resp,
               get_users_info(cache, ACCOUNT_API_KEY, now, use_cache, resp))

Next == Tick \/ GetBaseOpenings \/ GetJobDescriptions \/ GetUsersInfo

Spec == Init /\ [][Next]_vars

-----------------------------------------------------------------------------
(* Requests running in threads: a helper is entered (clock read, cache     *)
(* checked) in one step and finishes its upstream call in a later one.     *)

Misses(key, use_cache) ==
    /\ key = "users_info" => ACCOUNT_API_KEY
    /\ ~(use_cache /\ CacheFresh(cache, key, now))

fetch_part(key, c, current_time, use_cache, resp) ==
    CASE key = "openings" -> get_base_openings_fetch(c, current_time, use_cache, resp)
      [] key = "job_descriptions" -> get_job_descriptions_fetch(c, current_time, use_cache, resp)
      [] key = "users_info" -> get_users_info_fetch(c, current_time, use_cache, resp)

\* Request r enters a helper, misses the cache and starts the upstream call.
Enter(r) ==
    /\ reqs[r].pc = "idle"
    /\ \E key \in Keys, use_cache \in BOOLEAN :
          /\ Misses(key, use_cache)
          /\ reqs' = [reqs EXCEPT ![r] = [pc |-> "fetching", key |-> key,
                                          use_cache |-> use_cache, current_time |-> now]]
    /\ UNCHANGED <<cacheVars, resolveVars, apiVars, listVars, textVars>>

\* The upstream call of request r answers and the helper runs to its end.
Complete(r) ==
    /\ reqs[r].pc = "fetching"
    /\ \E resp \in Responses(reqs[r].key) :
          cache' = fetch_part(reqs[r].key, cache, reqs[r].current_time,
                              reqs[r].use_cache, resp).cache
    /\ reqs' = [reqs EXCEPT ![r] = idle_req]
    /\ UNCHANGED <<now, ACCOUNT_API_KEY, last, prev, resolveVars, apiVars, listVars, textVars>>

NextConc == Tick \/ (\E r \in 1..NumReqs : Enter(r)) \/ (\E r \in 1..NumReqs : Complete(r))

SpecConc == Init /\ [][NextConc]_vars

-----------------------------------------------------------------------------
(* Resolutions: each step resolves one query against one collection.        *)

\* A resolution that was asked for and is still to be made.
Asked(kind) == [kind |-> kind, done |-> FALSE, ret |-> NoMatch(Zero)]

AskOpening ==
    /\ openings \in OpeningLists
    /\ query_name \in OpeningQueries
    /\ candidates = [kind |-> "ok", has_key |-> FALSE, items |-> <<>>]
    /\ opening_id = <<>>
    /\ filter_stages = {}
    /\ sim_threshold \in Thresholds
    /\ result = Asked("opening")

AskCandidate ==
    /\ openings = <<>>
    /\ query_name \in CandidateQueries
    /\ candidates \in CandidateResponses
    /\ opening_id \in {<<>>, O1}
    /\ filter_stages \in StageFilters
    /\ sim_threshold = Half
    /\ result = Asked("candidate")

InitResolve ==
    /\ now = 0
    /\ ACCOUNT_API_KEY = TRUE
    /\ cache = cache_init
    /\ last = NoCall
    /\ prev = Brief(NoCall)
    /\ reqs = [r \in 1..NumReqs |-> idle_req]
    /\ request = NoRequest
    /\ response = Idle
    /\ served = NotServed
    /\ stage_name = NoneV
    /\ listing = NotListed
    /\ html = NoneV
    /\ plain = NotCleaned
    /\ (AskOpening \/ AskCandidate)

\* find_opening_id_by_name on the list of openings and the query.
FindOpening ==
    /\ result = Asked("opening")
    /\ result' = [kind |-> "opening", done |-> TRUE,
                  ret |-> find_opening_id_by_name(openings, query_name, sim_threshold)]
    /\ UNCHANGED <<cacheVars, concVars, inputVars, apiVars, listVars, textVars>>

\* find_candidate_by_name_in_opening on the upstream answer and the query.
FindCandidate ==
    /\ result = Asked("candidate")
    /\ result' = [kind |-> "candidate", done |-> TRUE,
                  ret |-> find_candidate_by_name_in_opening(query_name, opening_id, candidates,
                                                            sim_threshold, filter_stages)]
    /\ UNCHANGED <<cacheVars, concVars, inputVars, apiVars, listVars, textVars>>

NextResolve == FindOpening \/ FindCandidate

SpecResolve == InitResolve /\ [][NextResolve]_vars

-----------------------------------------------------------------------------
(* Endpoints (src/app.py) and tools (src/server.py).  A handler takes the   *)
(* cache, the time, the request and the answers upstream gives to the calls *)
(* it makes, and yields the cache afterwards and the answer.  An endpoint   *)
(* answers an error with an HTTP status; a tool answers it with             *)
(* {"success": False, "error": ...}.  Calls to services other than the      *)
(* hiring API (CV text, test sheet, file downloads) keep no state and are   *)
(* left out.  While one request is served, upstream gives one answer to     *)
(* all calls of one API.  A handler that starts with a resolution takes its *)
(* result as the argument r (found, for a candidate), made by the step that *)
(* applies the handler.                                                     *)

Handled(c, answer) == [cache |-> c, response |-> answer]

\* datetime.strptime(d, "%Y-%m-%d") succeeds on these strings only.
Parseable(d) == d \in {"2024-01-15", "2024-02-15"}

\* The date a parseable string stands for, as year * 10000 + month * 100 + day.
strptime(d) == IF d = "2024-01-15" THEN 20240115 ELSE 20240215

\* The parsing of start_date and end_date and the check of their order:
\* "ValueError" when strptime raises, "order" when start is after end.
parse_range(start_date, end_date) ==
    IF start_date # "" /\ ~Parseable(start_date) THEN "ValueError"
    ELSE IF end_date # "" /\ ~Parseable(end_date) THEN "ValueError"
    ELSE IF start_date # "" /\ end_date # "" /\ strptime(start_date) > strptime(end_date)
         THEN "order"
    ELSE "ok"

\* The answer to a ValueError: status 400 from an endpoint, the generic
\* error of the except clause from a tool.
ValueErrorAnswer(tool, calls) ==
    IF tool THEN Answer(TRUE, 500, "failed", FALSE, NoneV, calls)
    ELSE Answer(FALSE, 400, "bad_request", FALSE, NoneV, calls)

\* The answer to an exception a helper raised: an endpoint passes the
\* HTTPException on with its status, a tool answers success False with the
\* exception's message.  503 is the connection error of an upstream call.
Failure(tool, status, calls) ==
    Answer(tool, status, IF status = 503 THEN "unavailable" ELSE "failed", FALSE, NoneV, calls)

\* Variant of resolve_opening that catches the exception of
\* get_base_openings and answers it with (None, None, 0.0).
resolve_opening_caught(c, current_time, query, resp) ==
    LET o == get_base_openings(c, current_time, TRUE, resp)
    IN  [cache |-> o.cache,
         calls |-> IF o.fetched THEN 1 ELSE 0,
         raised |-> FALSE,
         status |-> 200,
         ret |-> IF o.ret.raised THEN NoMatch(Zero)
                 ELSE find_opening_id_by_name(o.ret.val, query, Half)]

\* find_opening_id_by_name as the handlers call it: the openings come from
\* get_base_openings(use_cache=True), whose exception is not caught.
resolve_opening(c, current_time, query, resp) ==
    LET o == get_base_openings(c, current_time, TRUE, resp)
    IN  [cache |-> o.cache,
         calls |-> IF o.fetched THEN 1 ELSE 0,
         raised |-> o.ret.raised,
         status |-> o.ret.status,
         ret |-> IF o.ret.raised THEN NoMatch(Zero)
                 ELSE find_opening_id_by_name(o.ret.val, query, Half)]

HasJd(jds, op_id) == \E i \in 1..Len(jds) : jds[i].id = op_id

\* Variant of lookup_jd whose second call stores what it fetched.
lookup_jd_storing(c, current_time, op_id, resp) ==
    LET a == get_job_descriptions(c, current_time, TRUE, resp)
        a_calls == IF a.fetched THEN 1 ELSE 0
    IN  IF a.ret.raised
        THEN [cache |-> a.cache, raised |-> TRUE, status |-> a.ret.status,
              found |-> FALSE, calls |-> a_calls]
        ELSE IF HasJd(a.ret.val, op_id)
        THEN [cache |-> a.cache, raised |-> FALSE, status |-> 200,
              found |-> TRUE, calls |-> a_calls]
        ELSE LET b == get_job_descriptions_fetch(a.cache, current_time, TRUE, resp)
             IN  [cache |-> b.cache, raised |-> b.ret.raised, status |-> b.ret.status,
                  found |-> ~b.ret.raised /\ HasJd(b.ret.val, op_id),
                  calls |-> a_calls + 1]

\* The job description of an opening: get_job_descriptions with the cache
\* and, when the opening is not in its result, once more without.
lookup_jd(c, current_time, op_id, resp) ==
    LET a == get_job_descriptions(c, current_time, TRUE, resp)
        a_calls == IF a.fetched THEN 1 ELSE 0
    IN  IF a.ret.raised
        THEN [cache |-> a.cache, raised |-> TRUE, status |-> a.ret.status,
              found |-> FALSE, calls |-> a_calls]
        ELSE IF HasJd(a.ret.val, op_id)
        THEN [cache |-> a.cache, raised |-> FALSE, status |-> 200,
              found |-> TRUE, calls |-> a_calls]
        ELSE LET b == get_job_descriptions(a.cache, current_time, FALSE, resp)
             IN  [cache |-> b.cache, raised |-> b.ret.raised, status |-> b.ret.status,
                  found |-> ~b.ret.raised /\ HasJd(b.ret.val, op_id),
                  calls |-> a_calls + 1]

\* get_candidates_for_opening: the candidate/list call and, when a listed
\* candidate has evaluations, get_users_info for the reviewers' names.
get_candidates_for_opening(c, account_key, current_time, list_resp, evaluations, users_resp) ==
    IF list_resp.kind # "ok" THEN [cache |-> c, raised |-> TRUE, calls |-> 1]
    ELSE IF list_resp.items # <<>> /\ evaluations
    THEN LET u == get_users_info(c, account_key, current_time, TRUE, users_resp)
         IN  [cache |-> u.cache, raised |-> FALSE, calls |-> IF u.fetched THEN 2 ELSE 1]
    ELSE [cache |-> c, raised |-> FALSE, calls |-> 1]

\* Variant of get_job_description_by_opening that answers a query without a
\* match as a success.
get_job_description_by_opening_lenient(r, current_time, jd_resp) ==
    IF r.raised THEN Handled(r.cache, Failure(FALSE, r.status, r.calls))
        ELSE IF r.ret.id = NoneV
        THEN Handled(r.cache, Answer(FALSE, 200, "none", TRUE, Some(r.ret.score), r.calls))
        ELSE LET jd == lookup_jd(r.cache, current_time, r.ret.id.val, jd_resp)
                 calls == r.calls + jd.calls
             IN  IF jd.raised
                 THEN Handled(jd.cache, Failure(FALSE, jd.status, calls))
                 ELSE IF ~jd.found
                 THEN Handled(jd.cache, Answer(FALSE, 404, "not_found", FALSE, NoneV, calls))
                 ELSE Handled(jd.cache, Answer(FALSE, 200, "none", FALSE, Some(r.ret.score), calls))

\* GET /api/opening/{opening_name_or_id}/job-description
get_job_description_by_opening(r, current_time, jd_resp) ==
    IF r.raised THEN Handled(r.cache, Failure(FALSE, r.status, r.calls))
        ELSE IF r.ret.id = NoneV
        THEN Handled(r.cache, Answer(FALSE, 404, "not_found", TRUE, Some(r.ret.score), r.calls))
        ELSE LET jd == lookup_jd(r.cache, current_time, r.ret.id.val, jd_resp)
                 calls == r.calls + jd.calls
             IN  IF jd.raised
                 THEN Handled(jd.cache, Failure(FALSE, jd.status, calls))
                 ELSE IF ~jd.found
                 THEN Handled(jd.cache, Answer(FALSE, 404, "not_found", FALSE, NoneV, calls))
                 ELSE Handled(jd.cache, Answer(FALSE, 200, "none", FALSE, Some(r.ret.score), calls))

\* The tool lay_job_description_theo_opening.  o: the outcome of its own
\* get_base_openings call, which comes before the resolution.
lay_job_description_theo_opening(o, r, current_time, req, jd_resp) ==
    LET o_calls == IF o.fetched THEN 1 ELSE 0
    IN  IF o.ret.raised
        THEN Handled(o.cache, Failure(TRUE, o.ret.status, o_calls))
        ELSE IF req.opening_name_or_id = <<>>
        THEN Handled(o.cache, Answer(TRUE, 200, "none", FALSE, NoneV, o_calls))
        ELSE IF r.raised THEN Handled(r.cache, Failure(TRUE, r.status, o_calls + r.calls))
        ELSE IF r.ret.id = NoneV
                 THEN Handled(r.cache, Answer(TRUE, 200, "none", TRUE, Some(r.ret.score),
                                              o_calls + r.calls))
                 ELSE LET jd == lookup_jd(r.cache, current_time, r.ret.id.val, jd_resp)
                          calls == o_calls + r.calls + jd.calls
                      IN  IF jd.raised
                          THEN Handled(jd.cache, Failure(TRUE, jd.status, calls))
                          ELSE Handled(jd.cache, Answer(TRUE, 200, "none", FALSE,
                                                        Some(r.ret.score), calls))

\* get_candidates_by_opening (tool = FALSE) and lay_ung_vien_theo_opening
\* (tool = TRUE), which differ in the shape of their errors only.
candidates_by_opening(tool, c, r, account_key, current_time, req, list_resp, evaluations, users_resp, jd_resp) ==
    LET parsed == parse_range(req.start_date, req.end_date)
    IN  IF parsed = "ValueError" THEN Handled(c, ValueErrorAnswer(tool, 0))
        ELSE IF parsed = "order"
        THEN Handled(c, Answer(tool, 400, "bad_request", FALSE, NoneV, 0))
        ELSE IF r.raised THEN Handled(r.cache, Failure(tool, r.status, r.calls))
        ELSE IF r.ret.id = NoneV
                 THEN Handled(r.cache, Answer(tool, 404, "not_found", TRUE,
                                              Some(r.ret.score), r.calls))
                 ELSE LET l == get_candidates_for_opening(r.cache, account_key, current_time,
                                                          list_resp, evaluations, users_resp)
                      IN  IF l.raised
                          THEN Handled(l.cache, Failure(tool, 503, r.calls + l.calls))
                          ELSE LET jd == lookup_jd(l.cache, current_time, r.ret.id.val, jd_resp)
                                   calls == r.calls + l.calls + jd.calls
                               IN  IF jd.raised
                                   THEN Handled(jd.cache, Failure(tool, jd.status, calls))
                                   ELSE Handled(jd.cache, Answer(tool, 200, "none", FALSE,
                                                                 Some(r.ret.score), calls))

\* GET /api/opening/{opening_name_or_id}/candidates
get_candidates_by_opening(c, r, account_key, current_time, req, list_resp, evaluations, users_resp, jd_resp) ==
    candidates_by_opening(FALSE, c, r, account_key, current_time, req,
                          list_resp, evaluations, users_resp, jd_resp)

\* The tool lay_ung_vien_theo_opening.
lay_ung_vien_theo_opening(c, r, account_key, current_time, req, list_resp, evaluations, users_resp, jd_resp) ==
    candidates_by_opening(TRUE, c, r, account_key, current_time, req,
                          list_resp, evaluations, users_resp, jd_resp)

\* get_interviews_by_opening (tool = FALSE) and lay_lich_phong_van
\* (tool = TRUE).  Only the date parameter is parsed; start_date and
\* end_date are not read.  r is read when the request names an opening.
\* interviews_ok: the interview/list call succeeds.
interviews_by_opening(tool, c, r, req, interviews_ok) ==
    IF req.date # "" /\ ~Parseable(req.date) THEN Handled(c, ValueErrorAnswer(tool, 0))
    ELSE LET asked == req.opening_name_or_id # <<>>
             missed == asked /\ r.ret.id = NoneV
             after == IF asked THEN r.cache ELSE c
             calls == IF asked THEN r.calls + 1 ELSE 1
         IN  IF asked /\ r.raised THEN Handled(r.cache, Failure(tool, r.status, r.calls))
             ELSE IF ~interviews_ok
             THEN Handled(after, Answer(tool, 503, "unavailable", missed, NoneV, calls))
             ELSE Handled(after, Answer(tool, 200, "none", missed,
                                        IF asked THEN Some(r.ret.score) ELSE NoneV, calls))

\* GET /api/interviews
get_interviews_by_opening(c, r, req, interviews_ok) ==
    interviews_by_opening(FALSE, c, r, req, interviews_ok)

\* The tool lay_lich_phong_van.
lay_lich_phong_van(c, r, req, interviews_ok) ==
    interviews_by_opening(TRUE, c, r, req, interviews_ok)

\* The first part of lay_chi_tiet_ung_vien and lay_offer_letter_theo_ung_vien:
\* the candidate id of the request, or the one found from the opening and the
\* candidate name.  stop: the tool has answered and returns.
locate_candidate(c, r, req, list_resp, stages) ==
    IF req.candidate_id # <<>>
    THEN [cache |-> c, stop |-> FALSE, answer |-> Pending, calls |-> 0, score |-> NoneV]
    ELSE IF req.opening_name_or_id = <<>> \/ req.candidate_name = <<>>
    THEN [cache |-> c, stop |-> TRUE,
          answer |-> Answer(TRUE, 400, "bad_request", FALSE, NoneV, 0),
          calls |-> 0, score |-> NoneV]
    ELSE IF r.raised
    THEN [cache |-> r.cache, stop |-> TRUE, answer |-> Failure(TRUE, r.status, r.calls),
          calls |-> r.calls, score |-> NoneV]
    ELSE IF r.ret.id = NoneV
             THEN [cache |-> r.cache, stop |-> TRUE,
                   answer |-> Answer(TRUE, 404, "not_found", TRUE, Some(r.ret.score), r.calls),
                   calls |-> r.calls, score |-> NoneV]
             ELSE LET hit == find_candidate_by_name_in_opening(
                                   req.candidate_name, r.ret.id.val, list_resp, Half, stages)
                  IN  IF hit.raised
                      THEN [cache |-> r.cache, stop |-> TRUE,
                            answer |-> Failure(TRUE, 500, r.calls + 1),
                            calls |-> r.calls + 1, score |-> NoneV]
                      ELSE IF hit.id = NoneV
                      THEN [cache |-> r.cache, stop |-> TRUE,
                            answer |-> Answer(TRUE, 404, "not_found", TRUE,
                                              Some(hit.score), r.calls + 1),
                            calls |-> r.calls + 1, score |-> NoneV]
                      ELSE [cache |-> r.cache, stop |-> FALSE, answer |-> Pending,
                            calls |-> r.calls + 1, score |-> Some(hit.score)]

\* The tool lay_chi_tiet_ung_vien.  details_ok: get_candidate_details returns
\* the candidate; data: the opening_id and vi_tri_ung_tuyen fields of what it
\* returns, from which the job description is looked up; position: the
\* resolution of vi_tri_ung_tuyen, read when the record has no opening_id.
lay_chi_tiet_ung_vien(found, position, current_time, details_ok, data, jd_resp) ==
    IF found.stop THEN Handled(found.cache, found.answer)
        ELSE IF ~details_ok
        THEN Handled(found.cache, Answer(TRUE, 500, "failed", FALSE, NoneV, found.calls + 1))
        ELSE IF data.opening_id = <<>> /\ data.vi_tri_ung_tuyen = <<>>
        THEN Handled(found.cache, Answer(TRUE, 200, "none", FALSE, found.score, found.calls + 1))
        ELSE LET r == IF data.opening_id = <<>> THEN position
                      ELSE [cache |-> found.cache, calls |-> 0, raised |-> FALSE, status |-> 200,
                            ret |-> Match(data.opening_id, data.vi_tri_ung_tuyen, One)]
                 calls == found.calls + 1 + r.calls
             IN  IF r.raised THEN Handled(r.cache, Failure(TRUE, r.status, calls))
                 ELSE IF r.ret.id = NoneV
                 THEN Handled(r.cache, Answer(TRUE, 200, "none", FALSE, found.score, calls))
                 ELSE LET jd == lookup_jd(r.cache, current_time, r.ret.id.val, jd_resp)
                      IN  IF jd.raised
                          THEN Handled(jd.cache, Failure(TRUE, jd.status, calls + jd.calls))
                          ELSE Handled(jd.cache, Answer(TRUE, 200, "none", FALSE, found.score,
                                                        calls + jd.calls))

\* The tool lay_offer_letter_theo_ung_vien.  has_offer: get_offer_letter finds
\* an offer letter among the candidate's messages.
lay_offer_letter_theo_ung_vien(found, details_ok, has_offer) ==
    IF found.stop THEN Handled(found.cache, found.answer)
        ELSE IF ~details_ok
        THEN Handled(found.cache, Answer(TRUE, 500, "failed", FALSE, NoneV, found.calls + 1))
        ELSE IF ~has_offer
        THEN Handled(found.cache, Answer(TRUE, 404, "not_found", FALSE, NoneV, found.calls + 2))
        ELSE Handled(found.cache, Answer(TRUE, 200, "none", FALSE, found.score, found.calls + 2))

-----------------------------------------------------------------------------
(* Requests and upstream answers of the endpoint runs *)

ApiQueries == {O1, <<"backend", "engineer">>, <<"Marketing", "Manager">>}
DateStrings == {"", "2024-01-15", "2024-02-15", "15/01/2024"}
InterviewDates == {"", "2024-01-15", "15/01/2024"}
\* Values of the start_date and end_date parameters of the interview listing.
UnusedDates == {<<"", "">>, <<"15/01/2024", "">>, <<"", "15/01/2024">>}

Request(endpoint, query, id, name, date, start_date, end_date) ==
    [endpoint |-> endpoint, opening_name_or_id |-> query, candidate_id |-> id,
     candidate_name |-> name, date |-> date, start_date |-> start_date, end_date |-> end_date]

Requests ==
    {Request("get_job_description_by_opening", q, <<>>, <<>>, "", "", "") : q \in ApiQueries}
    \cup {Request("lay_job_description_theo_opening", q, <<>>, <<>>, "", "", "") :
             q \in ApiQueries \cup {<<>>}}
    \cup {Request(e, q, <<>>, <<>>, "", d1, d2) :
             e \in {"get_candidates_by_opening", "lay_ung_vien_theo_opening"},
             q \in ApiQueries \ {O1}, d1 \in DateStrings, d2 \in DateStrings}
    \cup {Request(e, q, <<>>, <<>>, d, dd[1], dd[2]) :
             e \in {"get_interviews_by_opening", "lay_lich_phong_van"},
             q \in {<<>>, O1, <<"Marketing", "Manager">>}, d \in InterviewDates,
             dd \in UnusedDates}
    \cup {Request(e, q, id, name, "", "", "") :
             e \in {"lay_chi_tiet_ung_vien", "lay_offer_letter_theo_ung_vien"},
             q \in {<<>>, O1, <<"Marketing", "Manager">>}, id \in {<<>>, <<"c1">>},
             name \in {<<>>, <<"An">>, <<"Nguyen">>}}

\* Upstream answers to opening/list during a request.
ApiOpeningResponses ==
    {r \in OpeningResponses : r.kind = "neterr" \/ (r.has_key /\ r.items # <<>>)}

ApiUserResponses == {r \in UserResponses : r.kind = "neterr" \/ (r.has_key /\ r.items # <<>>)}

\* Upstream answers to candidate/list during a request.
ApiCandidateResponses ==
    { [kind |-> "neterr", has_key |-> FALSE, items |-> <<>>],
      [kind |-> "ok", has_key |-> TRUE, items |-> <<>>],
      [kind |-> "ok", has_key |-> TRUE,
       items |-> <<[id |-> <<"c1">>, name |-> <<"An">>, stage_name |-> <<"New">>]>>],
      [kind |-> "ok", has_key |-> TRUE,
       items |-> <<[id |-> <<"c2">>, name |-> <<"An">>, stage_name |-> <<"Hired">>]>>] }

\* Upstream answers to candidate/list for the resolution of a candidate
\* name: those above and a response whose body is not JSON.
ApiResolveResponses ==
    ApiCandidateResponses \cup {[kind |-> "badjson", has_key |-> FALSE, items |-> <<>>]}

\* Upstream answers to candidate/list where only failure and emptiness count.
ApiListResponses == {r \in ApiCandidateResponses : r.kind = "neterr" \/ Len(r.items) <= 1}

\* The opening fields of the candidate record get_candidate_details returns.
CandidateData ==
    { [opening_id |-> <<>>, vi_tri_ung_tuyen |-> <<>>],
      [opening_id |-> O1, vi_tri_ung_tuyen |-> BackendEngineer],
      [opening_id |-> <<>>, vi_tri_ung_tuyen |-> <<"Marketing", "Manager">>] }

-----------------------------------------------------------------------------
(* Endpoint runs: a request is received, its handler answers it, and the    *)
(* answer is delivered to the client.                                       *)

InitApi ==
    /\ now = 0
    /\ ACCOUNT_API_KEY = TRUE
    /\ cache = cache_init
    /\ last = NoCall
    /\ prev = Brief(NoCall)
    /\ reqs = [r \in 1..NumReqs |-> idle_req]
    /\ openings = <<>>
    /\ candidates = [kind |-> "ok", has_key |-> FALSE, items |-> <<>>]
    /\ query_name = <<>>
    /\ opening_id = <<>>
    /\ filter_stages = {}
    /\ sim_threshold = Half
    /\ result = NoResult
    /\ request = NoRequest
    /\ response = Idle
    /\ served = NotServed
    /\ stage_name = NoneV
    /\ listing = NotListed
    /\ html = NoneV
    /\ plain = NotCleaned

apiRest == <<now, ACCOUNT_API_KEY, last, prev, concVars, resolveVars, listVars, textVars>>

Receive ==
    /\ request = NoRequest
    /\ request' \in Requests
    /\ response' = Pending
    /\ UNCHANGED <<cache, served, apiRest>>

Serving(endpoint) == request.endpoint = endpoint /\ ~response.done

\* The handler returns h; o, l and j are the answers upstream had for
\* opening/list (openings), candidate/list and opening/list (job descriptions).
Respond(h, o, l, j) ==
    /\ cache' = h.cache
    /\ response' = h.response
    /\ served' = Served(cache, o, l, j)
    /\ UNCHANGED <<request, apiRest>>

\* The answer has been sent; the server waits for the next request.
Deliver ==
    /\ request # NoRequest
    /\ response.done
    /\ request' = NoRequest
    /\ response' = Idle
    /\ served' = NotServed
    /\ UNCHANGED <<cache, apiRest>>

\* The opening named in the request, resolved against upstream answer o.
Resolved(o) == {resolve_opening(cache, now, request.opening_name_or_id, o)}

GetJobDescriptionByOpening ==
    /\ Serving("get_job_description_by_opening")
    /\ \E o \in ApiOpeningResponses, j \in ApiOpeningResponses :
       \E r \in Resolved(o) :
       \E h \in {get_job_description_by_opening(r, now, j)} : Respond(h, o, NoAnswer, j)

LayJobDescriptionTheoOpening ==
    /\ Serving("lay_job_description_theo_opening")
    /\ \E o \in ApiOpeningResponses, j \in ApiOpeningResponses :
       \E first \in {get_base_openings(cache, now, TRUE, o)} :
       \E r \in {resolve_opening(first.cache, now, request.opening_name_or_id, o)} :
       \E h \in {lay_job_description_theo_opening(first, r, now, request, j)} :
           Respond(h, o, NoAnswer, j)

GetCandidatesByOpening ==
    /\ Serving("get_candidates_by_opening")
    /\ \E o \in ApiOpeningResponses, l \in ApiListResponses, ev \in BOOLEAN,
          u \in ApiUserResponses, j \in ApiOpeningResponses :
       \E r \in Resolved(o) :
       \E h \in {get_candidates_by_opening(cache, r, ACCOUNT_API_KEY, now, request, l, ev, u, j)} :
           Respond(h, o, l, j)

LayUngVienTheoOpening ==
    /\ Serving("lay_ung_vien_theo_opening")
    /\ \E o \in ApiOpeningResponses, l \in ApiListResponses, ev \in BOOLEAN,
          u \in ApiUserResponses, j \in ApiOpeningResponses :
       \E r \in Resolved(o) :
       \E h \in {lay_ung_vien_theo_opening(cache, r, ACCOUNT_API_KEY, now, request, l, ev, u, j)} :
           Respond(h, o, l, j)

GetInterviewsByOpening ==
    /\ Serving("get_interviews_by_opening")
    /\ \E o \in ApiOpeningResponses, ok \in BOOLEAN :
       \E r \in Resolved(o) :
       \E h \in {get_interviews_by_opening(cache, r, request, ok)} :
           Respond(h, o, NoAnswer, NoAnswer)

LayLichPhongVan ==
    /\ Serving("lay_lich_phong_van")
    /\ \E o \in ApiOpeningResponses, ok \in BOOLEAN :
       \E r \in Resolved(o) :
       \E h \in {lay_lich_phong_van(cache, r, request, ok)} :
           Respond(h, o, NoAnswer, NoAnswer)

LayChiTietUngVien ==
    /\ Serving("lay_chi_tiet_ung_vien")
    /\ \E o \in ApiOpeningResponses, l \in ApiResolveResponses, ok \in BOOLEAN,
          data \in CandidateData, j \in ApiOpeningResponses :
       \E r \in Resolved(o) :
       \E found \in {locate_candidate(cache, r, request, l, {})} :
       \E position \in {resolve_opening(found.cache, now, data.vi_tri_ung_tuyen, o)} :
       \E h \in {lay_chi_tiet_ung_vien(found, position, now, ok, data, j)} : Respond(h, o, l, j)

LayOfferLetterTheoUngVien ==
    /\ Serving("lay_offer_letter_theo_ung_vien")
    /\ \E o \in ApiOpeningResponses, l \in ApiResolveResponses, ok \in BOOLEAN,
          offer \in BOOLEAN :
       \E r \in Resolved(o) :
       \E found \in {locate_candidate(cache, r, request, l, {<<"Offered">>, <<"Hired">>})} :
       \E h \in {lay_offer_letter_theo_ung_vien(found, ok, offer)} : Respond(h, o, l, NoAnswer)

NextApi ==
    \/ Receive
    \/ GetJobDescriptionByOpening
    \/ LayJobDescriptionTheoOpening
    \/ GetCandidatesByOpening
    \/ LayUngVienTheoOpening
    \/ GetInterviewsByOpening
    \/ LayLichPhongVan
    \/ LayChiTietUngVien
    \/ LayOfferLetterTheoUngVien
    \/ Deliver

SpecApi == InitApi /\ [][NextApi]_vars

-----------------------------------------------------------------------------
(* Candidate listing: get_candidates_for_opening with the records it        *)
(* returns.  The list all_stage_names is list(set(...)), whose order is not *)
(* determined by its elements: it is an argument, any ordering of the set.  *)
(* The outcome of a candidate's enrichment says which of its steps succeed. *)

OnsiteTechnicalInterview == <<"Onsite", "Technical", "Interview">>
FinalReviewInterview == <<"Final", "Review", "Interview">>

Evaluation == [id |-> "e1", username |-> "hoang", content |-> Some(<<"a", "<br>", "a", "<b>">>)]

UpCandidate(id, name, stage, cvs, evaluations) ==
    [id |-> id, name |-> name, stage_name |-> stage, cvs |-> cvs, evaluations |-> evaluations]

ListingEntries ==
    { UpCandidate(<<"c1">>, <<"An">>, <<"Hired">>, <<"cv1.pdf">>, <<Evaluation>>),
      UpCandidate(<<"c2">>, <<"An", "Nguyen">>, OnsiteTechnicalInterview, <<"cv2.pdf">>, <<Evaluation>>),
      UpCandidate(<<"c3">>, <<"An">>, FinalReviewInterview, <<>>, <<>>),
      UpCandidate(<<"c4">>, <<"Nguyen">>, <<>>, <<"cv4.pdf">>, <<Evaluation>>) }

ListingLists == {l \in DistinctLists(ListingEntries, MaxCandidates) : HasDistinctIds(l)}

ListingResponses ==
    { [kind |-> "neterr", has_key |-> FALSE, items |-> <<>>],
      [kind |-> "ok", has_key |-> FALSE, items |-> <<>>] }
    \cup { [kind |-> "ok", has_key |-> TRUE, items |-> l] : l \in ListingLists }

\* Values of the stage_name argument: None, a stage name, and two queries
\* that equal no stage name.
StageQueries == {NoneV, Some(<<"Hired">>), Some(<<"interview">>), Some(<<"Marketing">>)}

Outcome4(cv, test, offer, users) == [cv |-> cv, test |-> test, offer |-> offer, users |-> users]

\* All steps succeed, one step fails, or all fail.
EnrichmentOutcomes ==
    { Outcome4(TRUE, TRUE, TRUE, TRUE), Outcome4(FALSE, TRUE, TRUE, TRUE),
      Outcome4(TRUE, FALSE, TRUE, TRUE), Outcome4(TRUE, TRUE, FALSE, TRUE),
      Outcome4(TRUE, TRUE, TRUE, FALSE), Outcome4(FALSE, FALSE, FALSE, FALSE) }

CvText == <<"cv", "text">>
TestRows == <<"test", "rows">>
OfferLetter == <<"offer", "letter">>

\* The stage names of the candidates that have one.
StageNameSet(items) ==
    {items[i].stage_name : i \in {k \in 1..Len(items) : items[k].stage_name # <<>>}}

\* The lists a set can be turned into.
Orderings(S) ==
    {f \in [1..Cardinality(S) -> S] : \A i, k \in 1..Cardinality(S) : i # k => f[i] # f[k]}

\* The similarity a stage name must reach.
StageThreshold_default == Half

StageThreshold == [num |-> 3, den |-> 10]

\* matching_stage_names: NoneV for None (no filter), Some(s) for [s].
matching_stage_names(all_stage_names, stage) ==
    IF stage = NoneV THEN NoneV
    ELSE IF all_stage_names = <<>> THEN NoneV
    ELSE IF \E i \in 1..Len(all_stage_names) : all_stage_names[i] = stage.val THEN Some(stage.val)
    ELSE IF Vocabulary(all_stage_names) = {} THEN NoneV
    ELSE LET sims == similarities(stage.val, all_stage_names)
             best_idx == argmax(sims)
         IN  IF AtLeast(sims[best_idx], StageThreshold)
             THEN Some(all_stage_names[best_idx])
             ELSE NoneV

\* extract_text_from_cv_url_with_genai
CvTextOf(candidate, outcome) ==
    IF candidate.cvs = <<>> THEN NoneV
    ELSE IF outcome.cv THEN Some(CvText) ELSE NoneV

\* get_test_results_from_google_sheet
TestResultsOf(outcome) == IF outcome.test THEN Some(TestRows) ELSE NoneV

get_offer_letter(outcome) == IF outcome.offer THEN Some(OfferLetter) ELSE NoneV

\* The answer of the users API for one candidate's reviewer lookup.
UsersAnswer(outcome) ==
    IF outcome.users
    THEN [kind |-> "ok", has_key |-> TRUE,
          items |-> <<UpUser("", "Nobody", "Dev"), UpUser("hoang", "Hoang Tran", "Dev")>>]
    ELSE [kind |-> "neterr", has_key |-> FALSE, items |-> <<>>]

\* One review: the reviewer's name and title from username_to_info, the
\* username and '' when the username is not in it.
Review(e, info) ==
    LET known == {i \in 1..Len(info) : info[i].username = e.username}
        user == info[CHOOSE i \in known : TRUE]
    IN  [id |-> e.id,
         name |-> IF known # {} THEN user.name ELSE e.username,
         title |-> IF known # {} THEN user.title ELSE "",
         content |-> remove_html_tags(e.content)]

\* lookup: "none" when get_users_info is not called, "cached" when it
\* answers from the cache, "ok" and "failed" for its upstream call.
process_evaluations(c, account_key, current_time, evaluations, users_resp) ==
    IF evaluations = <<>> THEN [cache |-> c, reviews |-> <<>>, lookup |-> "none"]
    ELSE LET u == get_users_info(c, account_key, current_time, TRUE, users_resp)
         IN  [cache |-> u.cache,
              reviews |-> [i \in 1..Len(evaluations) |-> Review(evaluations[i], u.ret.val)],
              lookup |-> IF ~u.fetched THEN "cached" ELSE IF u.stored THEN "ok" ELSE "failed"]

candidate_info(candidate, op_id, outcome, reviews) ==
    [id |-> candidate.id, name |-> candidate.name,
     cv_url |-> IF candidate.cvs = <<>> THEN NoneV ELSE Some(candidate.cvs[1]),
     cv_text |-> CvTextOf(candidate, outcome),
     reviews |-> reviews,
     opening_id |-> op_id,
     stage_name |-> candidate.stage_name,
     test_results |-> TestResultsOf(outcome),
     offer_letter |-> get_offer_letter(outcome)]

\* Variant of enrich whose loop ends at the first candidate with a failed
\* offer-letter lookup: that candidate and those after it are left out.
RECURSIVE enrich_until_failure(_, _, _, _, _)
enrich_until_failure(c, account_key, current_time, op_id, pairs) ==
    IF pairs = <<>> \/ ~pairs[1].o.offer THEN [cache |-> c, candidates |-> <<>>, lookups |-> <<>>]
    ELSE LET p == process_evaluations(c, account_key, current_time, pairs[1].c.evaluations, UsersAnswer(pairs[1].o))
             rest == enrich_until_failure(p.cache, account_key, current_time, op_id, Tail(pairs))
         IN  [cache |-> rest.cache,
              candidates |-> <<candidate_info(pairs[1].c, op_id, pairs[1].o, p.reviews)>> \o rest.candidates,
              lookups |-> <<p.lookup>> \o rest.lookups]

\* The loop over the filtered candidates; each element of pairs is a
\* candidate with the outcome of its enrichment.
RECURSIVE enrich(_, _, _, _, _)
enrich(c, account_key, current_time, op_id, pairs) ==
    IF pairs = <<>> THEN [cache |-> c, candidates |-> <<>>, lookups |-> <<>>]
    ELSE LET p == process_evaluations(c, account_key, current_time, pairs[1].c.evaluations, UsersAnswer(pairs[1].o))
             rest == enrich(p.cache, account_key, current_time, op_id, Tail(pairs))
         IN  [cache |-> rest.cache,
              candidates |-> <<candidate_info(pairs[1].c, op_id, pairs[1].o, p.reviews)>> \o rest.candidates,
              lookups |-> <<p.lookup>> \o rest.lookups]

Listed(c, raised, matching, kept, candidate_list, lookups) ==
    [cache |-> c, raised |-> raised, matching |-> matching, kept |-> kept,
     candidates |-> candidate_list, lookups |-> lookups]

\* get_candidates_for_opening with its result: the candidate records, and as
\* history the stage it filtered by, the upstream positions of the candidates
\* it kept and what each reviewer lookup did.  matching: what
\* matching_stage_names gives for the stage_name argument, made by the step
\* that applies the operator.
list_candidates_for_opening(c, account_key, current_time, op_id, resp, matching, outcomes) ==
    IF resp.kind # "ok" THEN Listed(c, TRUE, NoneV, <<>>, <<>>, <<>>)
    ELSE IF ~resp.has_key \/ resp.items = <<>> THEN Listed(c, FALSE, NoneV, <<>>, <<>>, <<>>)
    ELSE LET pairs == [i \in 1..Len(resp.items) |-> [i |-> i, c |-> resp.items[i], o |-> outcomes[i]]]
             Keep(p) == matching = NoneV \/ p.c.stage_name = matching.val
             filtered == SelectSeq(pairs, Keep)
             e == enrich(c, account_key, current_time, op_id, filtered)
         IN  Listed(e.cache, FALSE, matching, [k \in 1..Len(filtered) |-> filtered[k].i],
                    e.candidates, e.lookups)

InitListing ==
    /\ now = 0
    /\ ACCOUNT_API_KEY = TRUE
    /\ cache = cache_init
    /\ last = NoCall
    /\ prev = Brief(NoCall)
    /\ reqs = [r \in 1..NumReqs |-> idle_req]
    /\ openings = <<>>
    /\ candidates \in ListingResponses
    /\ query_name = <<>>
    /\ opening_id = O1
    /\ filter_stages = {}
    /\ sim_threshold = Half
    /\ result = NoResult
    /\ request = NoRequest
    /\ response = Idle
    /\ served = NotServed
    /\ stage_name \in StageQueries
    /\ listing = [done |-> FALSE, asked |-> TRUE]
    /\ html = NoneV
    /\ plain = NotCleaned

\* One call of get_candidates_for_opening.
GetCandidatesForOpening ==
    /\ listing.asked /\ ~listing.done
    /\ \E order \in Orderings(StageNameSet(candidates.items)) :
       \E matching \in {matching_stage_names(order, stage_name)} :
       \E outcomes \in [1..Len(candidates.items) -> EnrichmentOutcomes] :
       \E r \in {list_candidates_for_opening(cache, ACCOUNT_API_KEY, now, opening_id, candidates,
                                             matching, outcomes)} :
          /\ cache' = r.cache
          /\ listing' = [done |-> TRUE, asked |-> TRUE, order |-> order, outcomes |-> outcomes,
                         raised |-> r.raised, matching |-> r.matching, kept |-> r.kept,
                         candidates |-> r.candidates, lookups |-> r.lookups]
    /\ UNCHANGED <<now, ACCOUNT_API_KEY, last, prev, concVars, resolveVars, apiVars, stage_name, textVars>>

NextListing == GetCandidatesForOpening

SpecListing == InitListing /\ [][NextListing]_vars

-----------------------------------------------------------------------------
(* Runs of the text normalizer *)

\* The strings of at most n lexemes.
RECURSIVE Strings(_)
Strings(n) ==
    IF n = 0 THEN {<<>>}
    ELSE LET shorter == Strings(n - 1)
         IN  shorter \cup {Append(t, x) : t \in {u \in shorter : Len(u) = n - 1}, x \in Lexemes}

Texts == {NoneV} \cup {Some(t) : t \in Strings(MaxLen)}

InitText ==
    /\ now = 0
    /\ ACCOUNT_API_KEY = TRUE
    /\ cache = cache_init
    /\ last = NoCall
    /\ prev = Brief(NoCall)
    /\ reqs = [r \in 1..NumReqs |-> idle_req]
    /\ openings = <<>>
    /\ candidates = [kind |-> "ok", has_key |-> FALSE, items |-> <<>>]
    /\ query_name = <<>>
    /\ opening_id = <<>>
    /\ filter_stages = {}
    /\ sim_threshold = Half
    /\ result = NoResult
    /\ request = NoRequest
    /\ response = Idle
    /\ served = NotServed
    /\ stage_name = NoneV
    /\ listing = NotListed
    /\ html \in Texts
    /\ plain = [done |-> FALSE, asked |-> TRUE, text |-> <<>>]

RemoveHtmlTags ==
    /\ plain.asked /\ ~plain.done
    /\ plain' = [done |-> TRUE, asked |-> TRUE, text |-> remove_html_tags(html)]
    /\ UNCHANGED <<cacheVars, concVars, resolveVars, apiVars, stage_name, listing, html>>

NextText == RemoveHtmlTags

SpecText == InitText /\ [][NextText]_vars

-----------------------------------------------------------------------------
(* Properties of the TTL cache *)

Called == last.key \in Keys
Age == last.t - last.before.timestamp
HadPayload == last.before.data # NoneV
FetchFailed == last.fetched /\ last.upstream = "neterr"
SamePair == prev.key = last.key /\ prev.use_cache /\ last.use_cache
WithinTtl == last.t - prev.t < CACHE_TTL

\* C1: a cache-enabled call that finds a payload stored at t0 returns that
\* payload without calling upstream when t - t0 < CACHE_TTL, and calls
\* upstream when t - t0 >= CACHE_TTL.
C1_TtlDecidesFetch ==
    (Called /\ last.use_cache /\ HadPayload) =>
        IF Age < CACHE_TTL
        THEN /\ ~last.fetched
             /\ ~last.ret.raised
             /\ last.ret.val = last.before.data.val
        ELSE last.fetched

C1_Witness ==
    /\ Called /\ last.use_cache /\ HadPayload
    /\ Age = 299
    /\ ~last.fetched

\* C2 as stated: two cache-enabled calls for one resource within CACHE_TTL
\* of each other call upstream exactly once in total, whatever the first
\* call's fetch did.
C2_ExactlyOneFetch ==
    (SamePair /\ WithinTtl) => (prev.fetched # last.fetched)

\* C2 amended: of two consecutive cache-enabled calls for one resource within
\* CACHE_TTL of each other, if the first fetched and stored its result the
\* second does not fetch (one upstream call); if the first fetched and
\* stored nothing the second fetches again (two upstream calls).
C2_OneFetchWhenStored ==
    (SamePair /\ WithinTtl) =>
        /\ prev.stored => (prev.fetched /\ ~last.fetched)
        /\ (prev.fetched /\ ~prev.stored) => last.fetched

C2_Witness ==
    /\ SamePair
    /\ last.t - prev.t = 299
    /\ prev.stored
    /\ ~last.fetched

\* C3: when the entry has expired and the refresh fails, the call returns
\* the previously cached payload.
C3_StaleOnFailure ==
    (Called /\ last.use_cache /\ HadPayload /\ Age >= CACHE_TTL /\ FetchFailed) =>
        /\ ~last.ret.raised
        /\ last.ret.val = last.before.data.val

\* C4: when the fetch fails and nothing was ever cached, the call returns an
\* empty result and does not raise.
C4_EmptyOnFailure ==
    (Called /\ ~HadPayload /\ FetchFailed) =>
        /\ ~last.ret.raised
        /\ last.ret.val = <<>>

\* C5: a call whose fetch failed leaves an entry that held a payload with
\* the same payload and the same timestamp.
C5_FailedFetchKeepsEntry ==
    (Called /\ HadPayload /\ last.fetched /\ last.upstream \in {"neterr", "badjson"}) =>
        cache[last.key] = last.before

C5_Witness ==
    /\ Called /\ HadPayload /\ FetchFailed
    /\ last.key = "openings"
    /\ cache["openings"].data # Some(<<>>)

\* C6: a call with use_cache=False always calls upstream and, when the
\* fetch succeeds, stores the fetched payload with the current time.
C6_BypassStores ==
    (Called /\ ~last.use_cache) =>
        /\ last.fetched
        /\ last.upstream = "ok" =>
              cache[last.key] = [data |-> Some(last.ret.val), timestamp |-> last.t]

\* C7: once a fetch for a resource has succeeded, the entry's payload is
\* not None.
C7_PayloadAfterSuccess ==
    (Called /\ last.fetched /\ last.upstream = "ok") => cache[last.key].data # NoneV

\* C8: requests that concurrently miss the cache for one key share a single
\* upstream call.
C8_SingleFlight ==
    \A r1, r2 \in 1..NumReqs :
        (r1 # r2 /\ reqs[r1].pc = "fetching" /\ reqs[r2].pc = "fetching"
           /\ reqs[r1].use_cache /\ reqs[r2].use_cache)
        => reqs[r1].key # reqs[r2].key

-----------------------------------------------------------------------------
(* Properties of the resolvers *)

OpeningResolved == result.kind = "opening" /\ result.done

\* A candidate resolution that got past its argument checks and its upstream call.
CandidateResolved ==
    /\ result.kind = "candidate" /\ result.done
    /\ query_name # <<>> /\ opening_id # <<>>
    /\ candidates.kind = "ok"

Eligible == stage_filtered(candidates.items, filter_stages)

ExactOpening(i) == openings[i].id = query_name \/ openings[i].name = query_name
ExactCandidate(i) == Eligible[i].id = query_name \/ Eligible[i].name = query_name

C10_OneIffExact ==
    /\ OpeningResolved =>
          ((result.ret.score = One) <=> (\E i \in 1..Len(openings) : ExactOpening(i)))
    /\ CandidateResolved =>
          ((result.ret.score = One) <=> (\E i \in 1..Len(Eligible) : ExactCandidate(i)))

\* The candidates the similarity search runs over: those that pass the stage
\* filter and have a name.
Named == SelectSeq(Eligible, HasName)

NoExactOpening == \A i \in 1..Len(openings) : ~ExactOpening(i)
NoExactCandidate == \A i \in 1..Len(Eligible) : Eligible[i].name # query_name

\* C11: for a query that equals no entry exactly, the resolver takes an entry
\* of maximum similarity; it returns that entry's id with the similarity as
\* score when the similarity is at least the threshold, and otherwise
\* returns no id with that best similarity as score.
C11_BestOrNone ==
    /\ (OpeningResolved /\ openings # <<>> /\ NoExactOpening) =>
          LET sims == similarities(query_name, Names(openings))
          IN  \E i \in 1..Len(openings) :
                  /\ \A j \in 1..Len(openings) : ~ScoreLess(sims[i], sims[j])
                  /\ result.ret = IF AtLeast(sims[i], sim_threshold)
                                  THEN Match(openings[i].id, openings[i].name, sims[i])
                                  ELSE NoMatch(sims[i])
    /\ (CandidateResolved /\ Named # <<>> /\ NoExactCandidate) =>
          LET sims == similarities(query_name, Names(Named))
          IN  \E i \in 1..Len(Named) :
                  /\ \A j \in 1..Len(Named) : ~ScoreLess(sims[i], sims[j])
                  /\ result.ret = IF AtLeast(sims[i], sim_threshold)
                                  THEN Candidate(Named[i].id, sims[i])
                                  ELSE NoCandidate(sims[i])

\* A one-word query against two openings: the second shares the word and is
\* returned with a score strictly between the threshold and 1.0.
C11_Witness ==
    /\ OpeningResolved /\ NoExactOpening
    /\ Len(openings) = 2
    /\ sim_threshold = Half
    /\ ScoreLess(similarities(query_name, Names(openings))[1], result.ret.score)
    /\ ScoreLess(result.ret.score, One)
    /\ result.ret.id = Some(openings[2].id)

\* C12: over one list of openings, a query that resolves to an opening at a
\* threshold resolves to the same opening at every lower threshold.
C12_ThresholdMonotone ==
    (OpeningResolved /\ result.ret.id # NoneV) =>
        \A t1 \in Thresholds :
            ScoreLess(t1, sim_threshold) =>
                find_opening_id_by_name(openings, query_name, t1).id = result.ret.id

\* A query resolved by similarity at threshold 0.8, with lower thresholds to
\* compare with.
C12_Witness ==
    /\ OpeningResolved /\ NoExactOpening
    /\ sim_threshold = [num |-> 4, den |-> 5]
    /\ result.ret.id # NoneV
    /\ \E t1 \in Thresholds : ScoreLess(t1, sim_threshold)

\* Two strings that differ in letter case only.
CaseOnly(a, b) ==
    /\ a # b
    /\ Len(a) = Len(b)
    /\ \A k \in 1..Len(a) : Lower(a[k]) = Lower(b[k])

\* C13: a query that differs from an opening's name in letter case only and
\* equals no id or name resolves, at the default threshold, to that opening
\* with a score below 1.0 and at least 0.5.
C13_CaseDifferentBelowOne ==
    (OpeningResolved /\ NoExactOpening /\ sim_threshold = Half) =>
        \A i \in 1..Len(openings) :
            CaseOnly(query_name, openings[i].name) =>
                /\ result.ret.id = Some(openings[i].id)
                /\ ScoreLess(result.ret.score, One)
                /\ AtLeast(result.ret.score, Half)

\* The query has no token in common with any opening name.
NoSharedToken == TokenSet(query_name) \cap Vocabulary(Names(openings)) = {}

NoneBelowHalf ==
    /\ result.ret.id = NoneV
    /\ result.ret.name = NoneV
    /\ ~AtLeast(result.ret.score, Half)

\* C14 as stated: a query that shares no token with any name of a non-empty
\* list of openings resolves to no opening, with a score below 0.5.
C14_NoSharedTokenNoMatch ==
    (OpeningResolved /\ openings # <<>> /\ NoSharedToken) => NoneBelowHalf

\* C14 amended: a query that shares no token with any name of a non-empty
\* list of openings and equals no id or name exactly resolves to no opening,
\* with a score below 0.5.
C14_NoSharedTokenNoExact ==
    (OpeningResolved /\ openings # <<>> /\ NoSharedToken /\ NoExactOpening) => NoneBelowHalf

\* Scenario B: "Marketing Manager" against "Backend Engineer" and
\* "Frontend Engineer".
C14_Witness ==
    /\ OpeningResolved
    /\ Names(openings) = <<BackendEngineer, FrontendEngineer>>
    /\ query_name = <<"Marketing", "Manager">>
    /\ sim_threshold = Half
    /\ result.ret = NoMatch(Zero)

\* C15: resolving any query against an empty collection returns no match
\* with score 0.0; the resolution completes with a value, it does not raise.
C15_EmptyCollection ==
    /\ (OpeningResolved /\ openings = <<>>) => result.ret = NoMatch(Zero)
    /\ (CandidateResolved /\ candidates.items = <<>>) => result.ret = NoCandidate(Zero)

C15_Witness ==
    /\ OpeningResolved
    /\ openings = <<>>
    /\ query_name = BackendEngineer
    /\ result.ret = NoMatch(Zero)

InFilter(candidate) == candidate.stage_name \in filter_stages

\* C16: with a stage filter, every candidate id returned belongs to a
\* candidate whose stage_name is in the filter; of two candidates that carry
\* the queried name, one in a filtered stage and one not, a candidate of
\* that name in a filtered stage is returned with score 1.0.
C16_StageFilterFirst ==
    (CandidateResolved /\ filter_stages # {}) =>
        LET items == candidates.items
        IN  /\ result.ret.id # NoneV =>
                  \E i \in 1..Len(items) :
                      items[i].id = result.ret.id.val /\ InFilter(items[i])
            /\ \A i, j \in 1..Len(items) :
                  (/\ items[i].name = query_name /\ items[j].name = query_name
                   /\ InFilter(items[i]) /\ ~InFilter(items[j]))
                  => \E k \in 1..Len(items) :
                         /\ items[k].name = query_name /\ InFilter(items[k])
                         /\ result.ret = Candidate(items[k].id, One)

\* Two candidates named "An", the first in stage "New" and the second in
\* "Hired", resolved with the offer-letter filter.
C16_Witness ==
    /\ CandidateResolved
    /\ filter_stages = {<<"Offered">>, <<"Hired">>}
    /\ Len(candidates.items) = 2
    /\ query_name = <<"An">>
    /\ candidates.items[1].name = <<"An">> /\ candidates.items[1].stage_name = <<"New">>
    /\ candidates.items[2].name = <<"An">> /\ candidates.items[2].stage_name = <<"Hired">>
    /\ result.ret = Candidate(candidates.items[2].id, One)

\* A stage filter is given and no candidate of the opening is in its stages.
FilterEliminatesAll ==
    /\ CandidateResolved
    /\ filter_stages # {}
    /\ candidates.items # <<>>
    /\ \A i \in 1..Len(candidates.items) : ~InFilter(candidates.items[i])

\* C17 as stated: when the stage filter eliminates every candidate of the
\* opening, the name is matched against the full candidate list.
C17_FallsBackToFullList ==
    FilterEliminatesAll =>
        result.ret = find_candidate_by_name_in_opening(query_name, opening_id, candidates,
                                                       sim_threshold, {})

\* C17 amended: when the stage filter eliminates every candidate of the
\* opening, candidate resolution returns no candidate with score 0.0 and
\* does not match the name against the full list.
C17_NoMatchWhenAllFiltered ==
    FilterEliminatesAll => result.ret = NoCandidate(Zero)

\* The queried name belongs to a candidate in stage "New" and the filter
\* asks for "Hired".
C17_Witness ==
    /\ FilterEliminatesAll
    /\ filter_stages = {<<"Hired">>}
    /\ query_name = <<"An">>
    /\ candidates.items[1].name = <<"An">>
    /\ candidates.items[1].stage_name = <<"New">>
    /\ result.ret = NoCandidate(Zero)

\* Ids of the upstream openings whose status is not "10".
ClosedIds ==
    UNION {{l[i].id : i \in {j \in 1..Len(l) : l[j].status # "10"}} : l \in UpstreamOpeningLists}

NoClosed(payload) == \A i \in 1..Len(payload) : payload[i].id \notin ClosedIds

OpeningKeys == {"openings", "job_descriptions"}

\* C18: no opening with a status other than "10" is stored in the openings
\* or job_descriptions entry or returned by their helpers, with use_cache
\* true or false.
C18_OnlyActiveOpenings ==
    /\ \A k \in OpeningKeys : cache[k].data # NoneV => NoClosed(cache[k].data.val)
    /\ (last.key \in OpeningKeys /\ ~last.ret.raised) => NoClosed(last.ret.val)

\* A cache-bypassing get_job_descriptions call that received the upstream
\* list holding a closed opening and returned the active one only.
C18_Witness ==
    /\ last.key = "job_descriptions"
    /\ ~last.use_cache
    /\ last.fetched
    /\ last.upstream = "ok"
    /\ last.ret.val = <<[id |-> O1, name |-> BackendEngineer, content |-> 20]>>

-----------------------------------------------------------------------------
(* Properties of the endpoints and tools *)

NotFoundWithScore ==
    /\ ~response.success
    /\ response.error = "not_found"
    /\ response.score # NoneV

\* C19 as stated: a request for which a resolution returned no id is
\* answered with a not-found error that carries the similarity score, never
\* with a success.
C19_MissIsNotFound ==
    (response.done /\ response.missed) => NotFoundWithScore

\* The handlers that go on without a filter when the opening is not found.
Lenient == {"get_interviews_by_opening", "lay_lich_phong_van", "lay_job_description_theo_opening"}

\* C19 amended: after a resolution that returned no id, every handler but
\* the interview listings and the job-description tool answers with a
\* not-found error that carries the similarity score; those three never
\* answer not-found and carry the score in their success answer.
C19_MissIsNotFoundUnlessLenient ==
    (response.done /\ response.missed) =>
        IF request.endpoint \in Lenient
        THEN /\ response.error # "not_found"
             /\ response.success => response.score # NoneV
        ELSE NotFoundWithScore

\* The candidates endpoint answers 404 with score 0.0 to a query no opening
\* matches.
C19_Witness ==
    /\ request.endpoint = "get_candidates_by_opening"
    /\ request.opening_name_or_id = <<"Marketing", "Manager">>
    /\ response.done /\ response.missed
    /\ response.http = 404
    /\ response.score = Some(Zero)

Unparseable(d) == d # "" /\ ~Parseable(d)

\* The request has an unparseable date string in a date parameter, or asks
\* for a candidate with neither a candidate id nor both an opening and a name.
Malformed ==
    \/ Unparseable(request.date)
    \/ Unparseable(request.start_date)
    \/ Unparseable(request.end_date)
    \/ /\ request.endpoint \in {"lay_chi_tiet_ung_vien", "lay_offer_letter_theo_ung_vien"}
       /\ request.candidate_id = <<>>
       /\ request.opening_name_or_id = <<>> \/ request.candidate_name = <<>>

\* C20: a malformed request is rejected, by an endpoint with status 400 and
\* by a tool with an error, and no upstream call is made before the rejection.
C20_MalformedRejected ==
    (response.done /\ Malformed) =>
        /\ ~response.success
        /\ response.http \in {0, 400}
        /\ response.calls = 0

Tools ==
    {"lay_job_description_theo_opening", "lay_ung_vien_theo_opening", "lay_lich_phong_van",
     "lay_chi_tiet_ung_vien", "lay_offer_letter_theo_ung_vien"}

Answered == request # NoRequest /\ response.done

\* The request gets as far as the resolution of the opening it names (or, for
\* the job-description tool, as far as its own get_base_openings call).
NeedsOpenings ==
    \/ request.endpoint \in {"get_job_description_by_opening", "lay_job_description_theo_opening"}
    \/ /\ request.endpoint \in {"get_candidates_by_opening", "lay_ung_vien_theo_opening"}
       /\ parse_range(request.start_date, request.end_date) = "ok"
    \/ /\ request.endpoint \in {"get_interviews_by_opening", "lay_lich_phong_van"}
       /\ ~Unparseable(request.date)
       /\ request.opening_name_or_id # <<>>
    \/ /\ request.endpoint \in {"lay_chi_tiet_ung_vien", "lay_offer_letter_theo_ung_vien"}
       /\ request.candidate_id = <<>>
       /\ request.opening_name_or_id # <<>> /\ request.candidate_name # <<>>

\* opening/list fails while the request is served and the openings entry
\* has never held a payload.
OpeningsUnavailable ==
    /\ served.opening_list.kind = "neterr"
    /\ served.before["openings"].data = NoneV

\* C21: a request that needs the openings while upstream is unavailable and
\* no payload was ever cached for them is answered with the 503 error: status
\* 503 from an endpoint, success False with the connection error from a
\* tool; never a success, a not-found or a bad-request answer.
C21_UnavailableIs503 ==
    (Answered /\ NeedsOpenings /\ OpeningsUnavailable) =>
        /\ ~response.success
        /\ response.error = "unavailable"
        /\ response.http = IF request.endpoint \in Tools THEN 0 ELSE 503
        /\ cache["openings"].data = NoneV

\* The job-description endpoint answers 503 after its one failed upstream call.
C21_Witness ==
    /\ Answered
    /\ request.endpoint = "get_job_description_by_opening"
    /\ OpeningsUnavailable
    /\ response.http = 503
    /\ response.calls = 1

-----------------------------------------------------------------------------
(* Properties of the text normalizer *)

Cleaned == plain.asked /\ plain.done

\* The tags that stand for a line break, in either letter case.
LineBreakTags == BrTags \cup {"<BR>"}

LineBreaksToNewlines(text) ==
    [i \in 1..Len(text) |-> IF text[i] \in LineBreakTags THEN "\n" ELSE text[i]]

\* The text holds a tag: a "<", one or more characters other than ">", a ">".
HasTag(text) ==
    \E i \in 1..Len(text) :
        \/ text[i] \in TagLexemes
        \/ /\ text[i] = "<"
           /\ \E j \in (i + 1)..Len(text) :
                 /\ Closes(text[j])
                 /\ \A k \in (i + 1)..(j - 1) : ~Closes(text[k])
                 /\ ~(j = i + 1 /\ text[j] = ">")

\* The text the claim describes: line-break tags become newlines, the other
\* tags go, entities are decoded, blank-line runs collapse, the ends are trimmed.
Normalized(text) ==
    IF text = NoneV \/ text.val = <<>> THEN <<>>
    ELSE strip(sub_blank_lines(unescape(sub_tags(LineBreaksToNewlines(text.val)))))

\* C25: for every input, remove_html_tags returns the input with each
\* line-break tag turned into a newline, every other tag removed, entities
\* decoded, blank-line runs collapsed and the ends trimmed, and its output
\* holds no tag; None and the empty string give the empty string.
C25_NormalizedWithoutTags ==
    Cleaned =>
        /\ plain.text = Normalized(html)
        /\ ~HasTag(plain.text)
        /\ (html = NoneV \/ html.val = <<>>) => plain.text = <<>>

-----------------------------------------------------------------------------
(* Properties of the candidate listing *)

ListingReturned == listing.asked /\ listing.done /\ ~listing.raised

\* The places 1..n of the returned records.
Places == 1..Len(listing.kept)

\* The upstream candidate, the enrichment outcome and the returned record of
\* the k-th candidate that passed the filter.
UpstreamOf(k) == candidates.items[listing.kept[k]]
OutcomeOf(k) == listing.outcomes[listing.kept[k]]
RecordOf(k) == listing.candidates[k]

CvFailed(k) == UpstreamOf(k).cvs # <<>> /\ ~OutcomeOf(k).cv
TestFailed(k) == ~OutcomeOf(k).test
OfferFailed(k) == ~OutcomeOf(k).offer
ReviewerFailed(k) == listing.lookups[k] = "failed"

\* Every candidate that passed the filter is returned, in the upstream order.
AllKeptAppear ==
    /\ Len(listing.candidates) = Len(listing.kept)
    /\ \A k \in Places : RecordOf(k).id = UpstreamOf(k).id /\ RecordOf(k).name = UpstreamOf(k).name
    /\ \A k, m \in Places : k < m => listing.kept[k] < listing.kept[m]

\* The three lookups that give one field each: the field is None when the
\* lookup failed and holds the lookup's value when it did not.
FieldsFollowOutcome(k) ==
    /\ RecordOf(k).cv_text =
          IF UpstreamOf(k).cvs = <<>> \/ CvFailed(k) THEN NoneV ELSE Some(CvText)
    /\ RecordOf(k).test_results = IF TestFailed(k) THEN NoneV ELSE Some(TestRows)
    /\ RecordOf(k).offer_letter = IF OfferFailed(k) THEN NoneV ELSE Some(OfferLetter)

\* The reviews of the k-th record are empty: there are none, or the fields
\* the reviewer lookup fills are empty in each.
ReviewsEmpty(k) ==
    \A j \in 1..Len(RecordOf(k).reviews) :
        RecordOf(k).reviews[j].name = "" /\ RecordOf(k).reviews[j].title = ""

\* The reviews of the k-th record are those of the upstream evaluations with
\* the cleaned content; without the reviewer lookup the name is the username
\* and the title is empty.
ReviewsFallBack(k) ==
    /\ Len(RecordOf(k).reviews) = Len(UpstreamOf(k).evaluations)
    /\ \A j \in 1..Len(RecordOf(k).reviews) :
          /\ RecordOf(k).reviews[j].id = UpstreamOf(k).evaluations[j].id
          /\ RecordOf(k).reviews[j].content = remove_html_tags(UpstreamOf(k).evaluations[j].content)
          /\ RecordOf(k).reviews[j].name = UpstreamOf(k).evaluations[j].username
          /\ RecordOf(k).reviews[j].title = ""

ReviewsResolved(k) ==
    /\ Len(RecordOf(k).reviews) = Len(UpstreamOf(k).evaluations)
    /\ \A j \in 1..Len(RecordOf(k).reviews) :
          /\ RecordOf(k).reviews[j].id = UpstreamOf(k).evaluations[j].id
          /\ RecordOf(k).reviews[j].content = remove_html_tags(UpstreamOf(k).evaluations[j].content)
          /\ RecordOf(k).reviews[j].name = "Hoang Tran"
          /\ RecordOf(k).reviews[j].title = "CEO"

\* C22 as stated: a listing whose upstream call succeeded returns every
\* candidate that passed the filter, and each failed enrichment step (CV
\* text, test sheet, offer letter, reviewer lookup) leaves only that
\* candidate's corresponding field null or empty.
C22_FailedStepEmptiesField ==
    /\ (listing.asked /\ listing.done /\ candidates.kind = "ok") => ~listing.raised
    /\ ListingReturned =>
          /\ AllKeptAppear
          /\ \A k \in Places :
                /\ FieldsFollowOutcome(k)
                /\ ReviewerFailed(k) => ReviewsEmpty(k)

\* C22, amended: as above for the CV text, the test sheet and the offer
\* letter; a failed reviewer lookup leaves the candidate's reviews in place,
\* each with the reviewer's username as its name and an empty title, and a
\* reviewer lookup that did not fail gives the reviewer's name and title.
C22_FailedStepDegradesField ==
    /\ (listing.asked /\ listing.done /\ candidates.kind = "ok") => ~listing.raised
    /\ ListingReturned =>
          /\ AllKeptAppear
          /\ \A k \in Places :
                /\ FieldsFollowOutcome(k)
                /\ ReviewerFailed(k) => ReviewsFallBack(k)
                /\ listing.lookups[k] \in {"ok", "cached"} => ReviewsResolved(k)
                /\ listing.lookups[k] = "none" <=> UpstreamOf(k).evaluations = <<>>

\* Two candidates are returned: every step of the first failed, every step
\* of the second succeeded.
C22_Witness ==
    /\ ListingReturned
    /\ Len(listing.candidates) = 2
    /\ CvFailed(1) /\ TestFailed(1) /\ OfferFailed(1) /\ ReviewerFailed(1)
    /\ RecordOf(1).offer_letter = NoneV
    /\ RecordOf(1).reviews # <<>>
    /\ listing.lookups[2] = "ok"
    /\ RecordOf(2).cv_text = Some(CvText)
    /\ RecordOf(2).test_results = Some(TestRows)
    /\ RecordOf(2).offer_letter = Some(OfferLetter)

\* The positions of the upstream candidates a listing keeps when its stage
\* filter is matching.
KeptBy(matching) ==
    {i \in 1..Len(candidates.items) :
        matching = NoneV \/ candidates.items[i].stage_name = matching.val}

\* C23: resolution is deterministic; in a candidate listing the stage the
\* query resolves to, and with it the candidates returned, is the same for
\* every order in which the set of stage names is turned into the corpus.
C23_SameStageForEveryOrder ==
    ListingReturned =>
        \A all_stage_names \in Orderings(StageNameSet(candidates.items)) :
            /\ matching_stage_names(all_stage_names, stage_name) = listing.matching
            /\ KeptBy(matching_stage_names(all_stage_names, stage_name))
                  = {listing.kept[k] : k \in Places}

\* The positions of the upstream candidates in stage s.
PositionsInStage(s) == {i \in 1..Len(candidates.items) : candidates.items[i].stage_name = s}

ReturnedPositions == {listing.kept[k] : k \in Places}

\* The similarity of the stage_name query to a stage name present among
\* the candidates.
StageSimilarity(s) == Cosine(stage_name.val, s, listing.order)

\* s is a stage name of the best similarity to the query, and that is >= 0.3.
BestStage(s) ==
    /\ s \in StageNameSet(candidates.items)
    /\ AtLeast(StageSimilarity(s), [num |-> 3, den |-> 10])
    /\ \A t \in StageNameSet(candidates.items) : ~ScoreLess(StageSimilarity(s), StageSimilarity(t))

\* C24: a listing with a stage_name query returns exactly the candidates of
\* the stage the query equals; else exactly those of one stage of the best
\* similarity when that is >= 0.3; else (no stage reaches 0.3, or no
\* candidate has a stage name) all candidates of the opening.
C24_StageFilter ==
    (ListingReturned /\ stage_name # NoneV /\ candidates.items # <<>>) =>
        /\ AllKeptAppear
        /\ IF stage_name.val \in StageNameSet(candidates.items)
           THEN ReturnedPositions = PositionsInStage(stage_name.val)
           ELSE IF \E s \in StageNameSet(candidates.items) : BestStage(s)
           THEN \E s \in StageNameSet(candidates.items) :
                   BestStage(s) /\ ReturnedPositions = PositionsInStage(s)
           ELSE ReturnedPositions = 1..Len(candidates.items)

\* The query 'interview' equals no stage name; its similarity to 'Onsite
\* Technical Interview' is between 0.3 and 0.5 and the best there is, and of
\* two candidates only the one in that stage is returned.
C24_Witness ==
    /\ ListingReturned
    /\ stage_name = Some(<<"interview">>)
    /\ Len(candidates.items) = 2
    /\ candidates.items[1].stage_name = FinalReviewInterview
    /\ candidates.items[2].stage_name = OnsiteTechnicalInterview
    /\ BestStage(OnsiteTechnicalInterview)
    /\ ~AtLeast(StageSimilarity(OnsiteTechnicalInterview), Half)
    /\ listing.kept = <<2>>
    /\ RecordOf(1).id = <<"c2">>

\* No stage reaches 0.3 and every candidate is returned.
C24_WitnessAll ==
    /\ ListingReturned
    /\ stage_name = Some(<<"Marketing">>)
    /\ Len(candidates.items) = 2
    /\ StageNameSet(candidates.items) # {}
    /\ listing.kept = <<1, 2>>

-----------------------------------------------------------------------------
(* Properties of concurrent cache-enabled calls *)

\* Request r finishes its upstream call in this step and stores the result.
Stores(r) ==
    /\ reqs[r].pc = "fetching"
    /\ reqs'[r].pc = "idle"
    /\ cache'[reqs[r].key] # cache[reqs[r].key]

\* C26: under any interleaving of concurrent cache-enabled calls the stored
\* timestamp of a cache entry never decreases, and a stored payload is never
\* replaced by the result of a fetch issued (clock read at call entry)
\* earlier than the fetch that produced the payload.
C26_NoOlderFetchOverwrites ==
    [][/\ \A k \in Keys : cache[k].timestamp <= cache'[k].timestamp
       /\ \A r \in 1..NumReqs :
             (Stores(r) /\ cache[reqs[r].key].data # NoneV) =>
                 cache[reqs[r].key].timestamp <= reqs[r].current_time]_vars

-----------------------------------------------------------------------------
(* Properties of the value opening resolution returns *)

\* C27: whenever opening resolution returns an id, the id and the name it
\* returns are the id and the name of one and the same entry of the
\* collection it resolved against, and the score it returns is at least the
\* threshold in force.
C27_PairOfOneEntry ==
    (OpeningResolved /\ result.ret.id # NoneV) =>
        /\ \E i \in 1..Len(openings) :
              /\ result.ret.id = Some(openings[i].id)
              /\ result.ret.name = Some(openings[i].name)
        /\ AtLeast(result.ret.score, sim_threshold)

\* By similarity the query resolves to the second of two openings with
\* different names, and its name comes with its id.
C27_Witness ==
    /\ OpeningResolved /\ NoExactOpening
    /\ Len(openings) = 2
    /\ openings[1].name # openings[2].name
    /\ result.ret.id = Some(openings[2].id)
    /\ result.ret.name = Some(openings[2].name)
    /\ AtLeast(result.ret.score, sim_threshold)
    /\ ~AtLeast(similarities(query_name, Names(openings))[1], sim_threshold)

-----------------------------------------------------------------------------
(* Properties of the job-description lookup *)

JdHandlers == {"get_job_description_by_opening", "lay_job_description_theo_opening"}

\* The resolution of the opening named in the answered request, and the
\* first get_job_descriptions call (use_cache=True) that follows it.
ResolvedBefore ==
    resolve_opening(served.before, now, request.opening_name_or_id, served.opening_list)
JdFirst == get_job_descriptions(ResolvedBefore.cache, now, TRUE, served.job_list)

\* A job-description request was answered; its opening resolved to an id
\* that is not in the list the first get_job_descriptions call returned.
JdMissing ==
    /\ Answered
    /\ request.endpoint \in JdHandlers
    /\ request.opening_name_or_id # <<>>
    /\ ~ResolvedBefore.raised
    /\ ResolvedBefore.ret.id # NoneV
    /\ ~JdFirst.ret.raised
    /\ ~HasJd(JdFirst.ret.val, ResolvedBefore.ret.id.val)

\* Both entries the request reads were fresh when it arrived.
FoundFresh ==
    /\ CacheFresh(served.before, "openings", now)
    /\ CacheFresh(served.before, "job_descriptions", now)

-----------------------------------------------------------------------------
(* Properties of candidate resolution inside a tool *)

CandidateTools == {"lay_chi_tiet_ung_vien", "lay_offer_letter_theo_ung_vien"}

\* A tool was answered that resolved its opening and then called
\* find_candidate_by_name_in_opening, whose candidate-list call did not give
\* a list of candidates.
CandidateListFailed ==
    /\ Answered
    /\ request.endpoint \in CandidateTools
    /\ request.candidate_id = <<>>
    /\ request.opening_name_or_id # <<>> /\ request.candidate_name # <<>>
    /\ ~ResolvedBefore.raised
    /\ ResolvedBefore.ret.id # NoneV
    /\ served.candidate_list.kind # "ok"

\* C29: candidate resolution never raises; when its upstream candidate-list
\* call fails it returns (None, 0.0), so the tool answers candidate-not-found
\* with score 0.00 after that one call, and the cache is as the resolution of
\* the opening left it.
C29_FailedListIsNotFound ==
    CandidateListFailed =>
        /\ ~response.success
        /\ response.error = "not_found"
        /\ response.missed
        /\ response.score = Some(Zero)
        /\ response.calls = ResolvedBefore.calls + 1
        /\ cache = ResolvedBefore.cache

\* The same for a candidate-list call that fails with a RequestException.
C29_RequestExceptionIsNotFound ==
    (CandidateListFailed /\ served.candidate_list.kind = "neterr") =>
        /\ ~response.success
        /\ response.error = "not_found"
        /\ response.missed
        /\ response.score = Some(Zero)
        /\ response.calls = ResolvedBefore.calls + 1
        /\ cache = ResolvedBefore.cache

-----------------------------------------------------------------------------
(* Properties of the cache entries a call leaves alone *)

\* C30: a call of a cached helper, whether it answers from the cache or
\* refreshes its entry, changes neither payload nor timestamp of the entries
\* of the two other keys; this holds for every step of every sequence of
\* calls.
C30_OtherKeysUnchanged ==
    [][\A k \in Keys \ {last'.key} : cache'[k] = cache[k]]_vars

\* The openings entry has just been refreshed, later than the two other
\* entries, which hold the payloads stored before.
C30_Witness ==
    /\ last.key = "openings" /\ last.stored
    /\ cache["openings"].timestamp = now
    /\ cache["job_descriptions"].data # NoneV
    /\ cache["users_info"].data # NoneV
    /\ cache["job_descriptions"].timestamp < now
    /\ cache["users_info"].timestamp < now

====
